---------------------------- MODULE Spec2Model ----------------------------
(***************************************************************************)
(* A model of the document-ingestion core of rsvp-reader: the adapter      *)
(* registry, the format adapters (EPUB, PDF, text, HTML, Markdown, FB2,    *)
(* DOCX, RTF, ODT, MOBI), and parseFile's page-merge post-processing.      *)
(*                                                                         *)
(* Strings are sequences of one-character strings, so that the character   *)
(* scanners of the source (split, trim, regular expressions) are computed  *)
(* and not assumed.  Word indices, page starts and paragraph starts keep   *)
(* the source's 0-based values; TLA+ sequences are 1-based, so word i of   *)
(* the source is words[i + 1].                                             *)
(***************************************************************************)
EXTENDS Integers, Sequences, FiniteSets, TLC

VARIABLES
    regFile,      \* the file last handed to registry.getAdapterForFile
    regAdapter,   \* what getAdapterForFile returned for it
    file,         \* the file last handed to parseFile
    result,       \* what the chosen adapter's parse returned (before merging)
    final,        \* what parseFile returned (after the page merge)
    arg,          \* the argument of the converter that was last called on its
                  \* own (decompressPalmDoc's bytes, rtfToText's characters)
    ret,          \* that converter's loop state while it runs, then its result
    phase,        \* "idle" | "found" | "parsed" | "decompressing" |
                  \* "decompressed" | "converted"
    documentStore,    \* the DocumentState the document store holds
    currentDocument,  \* the store module's "let currentDocument"
    released,         \* per document, the calls of cleanupEpubResources on it
    loads,            \* the invocations of the file loader's loadFile, in the
                      \* order they were made
    loader            \* the file loader component: its local state, its
                      \* onMount callback, its file dialog

parserVars == <<regFile, regAdapter, file, result, final, arg, ret, phase>>

storeVars == <<documentStore, currentDocument, released>>

loaderVars == <<loads, loader>>

vars == <<regFile, regAdapter, file, result, final, arg, ret, phase,
          documentStore, currentDocument, released, loads, loader>>

-----------------------------------------------------------------------------
(* Characters and strings *)

Chars(s) == [i \in 1..Len(s) |-> SubSeq(s, i, i)]

UpperSeq == Chars("ABCDEFGHIJKLMNOPQRSTUVWXYZ")
LowerSeq == Chars("abcdefghijklmnopqrstuvwxyz")
DigitSeq == Chars("0123456789")

SeqRange(s) == {s[i] : i \in 1..Len(s)}

IsUpper(c) == c \in SeqRange(UpperSeq)
IsLower(c) == c \in SeqRange(LowerSeq)
IsDigit(c) == c \in SeqRange(DigitSeq)
IsLetter(c) == IsUpper(c) \/ IsLower(c)

\* String.prototype.toLowerCase, one character
ToLowerChar(c) ==
    IF IsUpper(c)
    THEN LowerSeq[CHOOSE i \in 1..26 : UpperSeq[i] = c]
    ELSE c

ToLowerCase(s) == [i \in 1..Len(s) |-> ToLowerChar(s[i])]

\* Array.prototype.includes
Includes(arr, x) == \E i \in 1..Len(arr) : arr[i] = x

\* s.split('.').pop(): the part of s after its last '.', all of s without one
LastSegment(s) ==
    LET dots == {i \in 1..Len(s) : s[i] = "."}
    IN  IF dots = {} THEN s
        ELSE LET d == CHOOSE i \in dots : \A j \in dots : j <= i
             IN  SubSeq(s, d + 1, Len(s))

-----------------------------------------------------------------------------
(* The adapters and the registry *)

epubAdapter ==
    [formatName |-> "EPUB",
     extensions |-> <<Chars("epub")>>,
     mimeTypes  |-> <<Chars("application/epub+zip")>>]

pdfAdapter ==
    [formatName |-> "PDF",
     extensions |-> <<Chars("pdf")>>,
     mimeTypes  |-> <<Chars("application/pdf")>>]

textAdapter ==
    [formatName |-> "Plain Text",
     extensions |-> <<Chars("txt"), Chars("text")>>,
     mimeTypes  |-> <<Chars("text/plain")>>]

htmlAdapter ==
    [formatName |-> "HTML",
     extensions |-> <<Chars("html"), Chars("htm"), Chars("xhtml")>>,
     mimeTypes  |-> <<Chars("text/html"), Chars("application/xhtml+xml")>>]

markdownAdapter ==
    [formatName |-> "Markdown",
     extensions |-> <<Chars("md"), Chars("markdown")>>,
     mimeTypes  |-> <<Chars("text/markdown"), Chars("text/x-markdown")>>]

fb2Adapter ==
    [formatName |-> "FictionBook (FB2)",
     extensions |-> <<Chars("fb2")>>,
     mimeTypes  |-> <<Chars("application/x-fictionbook+xml"), Chars("text/xml")>>]

docxAdapter ==
    [formatName |-> "Microsoft Word (DOCX)",
     extensions |-> <<Chars("docx")>>,
     mimeTypes  |-> <<Chars("application/vnd.openxmlformats-officedocument.wordprocessingml.document")>>]

rtfAdapter ==
    [formatName |-> "Rich Text Format (RTF)",
     extensions |-> <<Chars("rtf")>>,
     mimeTypes  |-> <<Chars("application/rtf"), Chars("text/rtf")>>]

odtAdapter ==
    [formatName |-> "OpenDocument Text (ODT)",
     extensions |-> <<Chars("odt")>>,
     mimeTypes  |-> <<Chars("application/vnd.oasis.opendocument.text")>>]

mobiAdapter ==
    [formatName |-> "Kindle (MOBI/AZW)",
     extensions |-> <<Chars("mobi"), Chars("azw"), Chars("azw3"), Chars("prc")>>,
     mimeTypes  |-> <<Chars("application/x-mobipocket-ebook"), Chars("application/vnd.amazon.ebook")>>]

NullAdapter == [formatName |-> "null", extensions |-> <<>>, mimeTypes |-> <<>>]

\* AdapterRegistry.register: push unless an adapter of that formatName is there
register(adapters, adapter) ==
    IF \E i \in 1..Len(adapters) : adapters[i].formatName = adapter.formatName
    THEN adapters
    ELSE Append(adapters, adapter)

\* the registry after the module-level registrations of adapters/index.ts
registry ==
    register(register(register(register(register(register(register(register(
    register(register(<<>>,
        epubAdapter), pdfAdapter), textAdapter), htmlAdapter), markdownAdapter),
        fb2Adapter), docxAdapter), rtfAdapter), odtAdapter), mobiAdapter)

canAdapterHandleExtOnly(adapter, f) ==
    Includes(adapter.extensions, ToLowerCase(LastSegment(f.name)))

canAdapterHandle(adapter, f) ==
    LET extension == LastSegment(ToLowerCase(f.name))
        mimeType  == ToLowerCase(f.type)
    IN  \/ Includes(adapter.extensions, extension)
        \/ Includes(adapter.mimeTypes, mimeType)

RECURSIVE getAdapterFrom(_, _, _)
getAdapterFrom(adapters, i, f) ==
    IF i > Len(adapters) THEN NullAdapter
    ELSE IF canAdapterHandle(adapters[i], f) THEN adapters[i]
    ELSE getAdapterFrom(adapters, i + 1, f)

getAdapterForFile(f) == getAdapterFrom(registry, 1, f)


-----------------------------------------------------------------------------
(* Loops.  A while/for loop of the source is its body as a step operator    *)
(* on the loop's state (a step of a finished loop leaves the state alone),  *)
(* iterated 2^k times with k chosen so that the loop has finished.          *)

RECURSIVE Iterate(_, _, _)
Iterate(Step(_), st, k) ==
    IF k = 0 THEN Step(st)
    ELSE LET half == Iterate(Step, st, k - 1)
         IN  IF half = half THEN Iterate(Step, half, k - 1) ELSE st

RECURSIVE Log2Ceil(_)
Log2Ceil(n) == IF n <= 1 THEN 0 ELSE 1 + Log2Ceil((n + 1) \div 2)

\* run Step until the loop ends, given a bound on its number of iterations
Loop(Step(_), st, maxIterations) == Iterate(Step, st, Log2Ceil(maxIterations + 1))

\* "for (const x of seq)": Step folded over the elements of seq, in order
ForEach(Step(_, _), st, seq) ==
    Loop(LAMBDA s : IF s.i > Len(seq) THEN s
                    ELSE [i |-> s.i + 1, st |-> Step(s.st, seq[s.i])],
         [i |-> 1, st |-> st], Len(seq)).st

Last(s) == s[Len(s)]

-----------------------------------------------------------------------------
(* Words, documents and adapter results *)

IsSpace(c) == c \in {" ", "\t", "\n", "\r", "\f"}

\* String.prototype.trim
Trim(s) ==
    LET solid == {i \in 1..Len(s) : ~IsSpace(s[i])}
    IN  IF solid = {} THEN <<>>
        ELSE SubSeq(s, CHOOSE i \in solid : \A j \in solid : i <= j,
                       CHOOSE i \in solid : \A j \in solid : j <= i)

\* the en dash and the em dash, as single characters
EnDash == "{endash}"
EmDash == "{emdash}"

IsDash(c) == c \in {"-", EnDash, EmDash}

\* text-parser's splitOnDashes: a token is cut after each interior dash
splitOnDashes(tok) ==
    LET cuts == {i \in 2..(Len(tok) - 1) : IsDash(tok[i])}
        ends == cuts \cup {Len(tok)}
        nth(k) == CHOOSE e \in ends : Cardinality({x \in ends : x <= e}) = k
    IN  IF Len(tok) = 0 THEN <<tok>>
        ELSE [k \in 1..Cardinality(ends) |->
                SubSeq(tok, IF k = 1 THEN 1 ELSE nth(k - 1) + 1, nth(k))]

\* the concatenation of a sequence of sequences
RECURSIVE Concat(_)
Concat(ss) ==
    IF Len(ss) = 0 THEN <<>>
    ELSE IF Len(ss) = 1 THEN ss[1]
    ELSE LET h == Len(ss) \div 2
         IN  Concat(SubSeq(ss, 1, h)) \o Concat(SubSeq(ss, h + 1, Len(ss)))

\* tokens.flatMap(splitOnDashes)
FlatMapDashes(toks) == Concat([i \in 1..Len(toks) |-> splitOnDashes(toks[i])])

Word(text, paragraphIndex, pageIndex, italic, bold) ==
    [text |-> text, paragraphIndex |-> paragraphIndex, pageIndex |-> pageIndex,
     italic |-> italic, bold |-> bold]

Document(words, paragraphStarts, pageStarts, totalParagraphs, totalPages) ==
    [words |-> words, paragraphStarts |-> paragraphStarts, pageStarts |-> pageStarts,
     totalWords |-> Len(words), totalParagraphs |-> totalParagraphs,
     totalPages |-> totalPages]

\* the zero-word document the adapters return from their catch blocks
EmptyDocument == Document(<<>>, <<>>, <<>>, 0, 0)

NoPreview ==
    [present |-> FALSE, chapterContents |-> <<>>, chapters |-> <<>>,
     chapterStarts |-> <<>>]

Preview(chapterContents, chapters, chapterStarts) ==
    [present |-> TRUE, chapterContents |-> chapterContents, chapters |-> chapters,
     chapterStarts |-> chapterStarts]

\* a ChapterContent: markup (a sequence of pieces) and its [start, end] word range
ChapterContent(chapterIndex, htmlWithMarkers, wordStart, wordEnd) ==
    [chapterIndex |-> chapterIndex, htmlWithMarkers |-> htmlWithMarkers,
     wordRange |-> <<wordStart, wordEnd>>]

\* a ChapterInfo; wordStart is {} where the adapter leaves the field undefined
ChapterInfo(wordStart) == [wordStart |-> wordStart]

\* markup pieces: an opening tag, a closing tag, or an element that carries
\* data-word-index = idx
Tag(t) == [tag |-> t, closing |-> FALSE]
Close(t) == [tag |-> t, closing |-> TRUE]
Marker(t, idx) == [tag |-> t, closing |-> FALSE, idx |-> idx]

AdapterParseResult(document, title, preview, warnings, fileType) ==
    [document |-> document, title |-> title, preview |-> preview,
     warnings |-> warnings, fileType |-> fileType, threw |-> "none"]

\* "Update pageIndex for all words": the loop the adapters share
updatePageIndexStep(pageStarts, st) ==
    IF st.i >= Len(st.words) THEN st
    ELSE LET pageIdx == IF /\ st.pageIdx < Len(pageStarts) - 1
                           /\ st.i >= pageStarts[st.pageIdx + 2]
                        THEN st.pageIdx + 1 ELSE st.pageIdx
         IN  [i |-> st.i + 1, pageIdx |-> pageIdx,
              words |-> [st.words EXCEPT ![st.i + 1].pageIndex = pageIdx]]

updatePageIndex(words, pageStarts) ==
    Loop(LAMBDA st : updatePageIndexStep(pageStarts, st),
         [i |-> 0, pageIdx |-> 0, words |-> words], Len(words)).words

-----------------------------------------------------------------------------
(* Text scanning *)

\* the grave accent, as a single character
BackTick == "{backtick}"

\* the characters of codes 32..126
PrintableAscii ==
    Chars(" !\"#$%&'()*+,-./0123456789:;<=>?@ABCDEFGHIJKLMNOPQRSTUVWXYZ[\\]^_")
    \o <<BackTick>> \o Chars("abcdefghijklmnopqrstuvwxyz{|}~")

\* String.fromCharCode; a code outside the table is one opaque character
fromCharCode(code) ==
    IF code >= 32 /\ code <= 126 THEN PrintableAscii[code - 31]
    ELSE IF code = 9 THEN "\t"
    ELSE IF code = 10 THEN "\n"
    ELSE IF code = 13 THEN "\r"
    ELSE IF code = 12 THEN "\f"
    ELSE "{other}"

\* charCodeAt, for the characters of the table
charCode(c) ==
    IF \E k \in 1..Len(PrintableAscii) : PrintableAscii[k] = c
    THEN 31 + (CHOOSE k \in 1..Len(PrintableAscii) : PrintableAscii[k] = c)
    ELSE IF c = "\t" THEN 9
    ELSE IF c = "\n" THEN 10
    ELSE IF c = "\r" THEN 13
    ELSE IF c = "\f" THEN 12
    ELSE 65533

\* s.replace(/pattern/g, replacement): MatchLen(s, i) is the length of the
\* pattern's match at position i (0: none), Replacement(s, i) what replaces it
ReplaceAll(s, MatchLen(_, _), Replacement(_, _)) ==
    Loop(LAMBDA st :
            IF st.i > Len(s) THEN st
            ELSE LET n == MatchLen(s, st.i)
                 IN  IF n > 0
                     THEN [i |-> st.i + n, out |-> st.out \o Replacement(s, st.i)]
                     ELSE [i |-> st.i + 1, out |-> Append(st.out, s[st.i])],
         [i |-> 1, out |-> <<>>], Len(s)).out

\* the literal lit (lowercase) stands at position i of s, in any case / as is
MatchAtIgnoreCase(s, i, lit) ==
    /\ i + Len(lit) - 1 <= Len(s)
    /\ ToLowerCase(SubSeq(s, i, i + Len(lit) - 1)) = lit
MatchAt(s, i, lit) ==
    /\ i + Len(lit) - 1 <= Len(s)
    /\ SubSeq(s, i, i + Len(lit) - 1) = lit

\* the first position >= i of s that holds no white space (Len(s) + 1: none)
SkipSpace(s, i) ==
    LET solid == {j \in i..Len(s) : ~IsSpace(s[j])}
    IN  IF solid = {} THEN Len(s) + 1 ELSE CHOOSE j \in solid : \A k \in solid : j <= k

\* text.split(/\s+/).filter(w => w.length > 0): the maximal runs without white space
Tokens(s) ==
    LET st == ForEach(LAMBDA t, c :
                        IF IsSpace(c)
                        THEN (IF t.cur = <<>> THEN t
                              ELSE [out |-> Append(t.out, t.cur), cur |-> <<>>])
                        ELSE [t EXCEPT !.cur = Append(@, c)],
                      [out |-> <<>>, cur |-> <<>>], s)
    IN  IF st.cur = <<>> THEN st.out ELSE Append(st.out, st.cur)

\* the end of the match of /\n\s*\n/ at position i of s (0: no match)
blankLineEnd(s, i) ==
    IF s[i] # "\n" THEN 0
    ELSE LET stop == SkipSpace(s, i)
             later == {j \in (i + 1)..(stop - 1) : s[j] = "\n"}
         IN  IF later = {} THEN 0 ELSE CHOOSE j \in later : \A k \in later : k <= j

\* text.split(/\n\s*\n/)
splitBlankLines(s) ==
    LET st == Loop(LAMBDA t :
                    IF t.i > Len(s) THEN t
                    ELSE LET e == blankLineEnd(s, t.i)
                         IN  IF e > 0
                             THEN [i |-> e + 1, out |-> Append(t.out, t.cur), cur |-> <<>>]
                             ELSE [t EXCEPT !.i = @ + 1, !.cur = Append(@, s[t.i])],
                   [i |-> 1, out |-> <<>>, cur |-> <<>>], Len(s))
    IN  Append(st.out, st.cur)

-----------------------------------------------------------------------------
(* Tag trees.  What DOMParser hands the walkers: an element has a tag and   *)
(* child nodes; a text node is given by the tokens its text splits into at  *)
(* white space (text.split(/\s+/).filter(w => w.length > 0)).               *)

Text(tokens) == [tag |-> "#text", tokens |-> tokens, kids |-> <<>>, attr |-> ""]
Elem(tag, kids) == [tag |-> tag, tokens |-> <<>>, kids |-> kids, attr |-> ""]
ElemAttr(tag, attr, kids) == [tag |-> tag, tokens |-> <<>>, kids |-> kids, attr |-> attr]

targetWordsPerPage == 250

\* the walkers' running state
WalkState ==
    [words |-> <<>>, paragraphStarts |-> <<>>, pageStarts |-> <<0>>,
     wordIndex |-> 0, paragraphIndex |-> 0, wordsOnCurrentPage |-> 0,
     currentPage |-> 0, htmlParts |-> <<>>]

\* the marked-up span of word idx: FB2 wraps it in em outside strong, the
\* HTML and DOCX walkers in strong outside em; the ODT walker builds no markup
wordHtml(format, idx, italic, bold) ==
    LET span == <<Marker("span", idx)>>
        em(x) == IF italic THEN <<Tag("em")>> \o x \o <<Close("em")>> ELSE x
        strong(x) == IF bold THEN <<Tag("strong")>> \o x \o <<Close("strong")>> ELSE x
    IN  CASE format = "fb2" -> em(strong(span))
          [] format \in {"html", "docx", "markdown"} -> strong(em(span))
          [] OTHER -> <<>>

\* the walkers' loop over the words of one text node: each word is pushed
\* with the current paragraph and page, and its marked-up span is appended
pushWords(st, tokens, italic, bold, format) ==
    LET pushed(splitWords) ==
            LET n == Len(splitWords)
            IN  [st EXCEPT
                    !.words = @ \o [k \in 1..n |->
                        Word(splitWords[k], st.paragraphIndex, st.currentPage, italic, bold)],
                    !.htmlParts = @ \o Concat([k \in 1..n |->
                        wordHtml(format, st.wordIndex + k - 1, italic, bold)]),
                    !.wordIndex = @ + n,
                    !.wordsOnCurrentPage = @ + n]
    IN  pushed(FlatMapDashes(tokens))

\* a block boundary of the walkers: a new page once the page is full, and a
\* new paragraph, both only after the first word
startBlock(st) ==
    IF st.wordIndex > 0
    THEN LET full == st.wordsOnCurrentPage >= targetWordsPerPage
         IN  [st EXCEPT
                !.currentPage = IF full THEN @ + 1 ELSE @,
                !.pageStarts = IF full THEN Append(@, st.wordIndex) ELSE @,
                !.wordsOnCurrentPage = IF full THEN 0 ELSE @,
                !.paragraphIndex = @ + 1,
                !.paragraphStarts = Append(@, st.wordIndex)]
    ELSE st

pushHtml(st, piece) == [st EXCEPT !.htmlParts = Append(@, piece)]

-----------------------------------------------------------------------------
(* FB2 *)

fb2EmptyLine(st) ==
    IF st.wordIndex > 0
    THEN [st EXCEPT !.paragraphIndex = @ + 1,
                    !.paragraphStarts = Append(@, st.wordIndex)]
    ELSE st

RECURSIVE fb2ExtractFromElement(_, _, _, _)
fb2ExtractNode(node, italic, bold, st) ==
    LET tagName == node.tag
        isItalic == italic \/ tagName = "emphasis"
        isBold == bold \/ tagName = "strong"
        wrapped(tag, s0) ==
            LET inner == fb2ExtractFromElement(node, isItalic, isBold,
                                               pushHtml(s0, Tag(tag)))
            IN  IF inner = inner THEN pushHtml(inner, Close(tag)) ELSE st
    IN  IF tagName = "#text" THEN pushWords(st, node.tokens, italic, bold, "fb2")
        ELSE IF tagName = "p" THEN wrapped("p", startBlock(st))
        ELSE IF tagName = "empty-line" THEN fb2EmptyLine(st)
        ELSE IF tagName = "title" THEN wrapped("h2", st)
        ELSE IF tagName = "subtitle" THEN wrapped("h3", st)
        ELSE IF tagName \in {"epigraph", "cite"} THEN wrapped("blockquote", st)
        ELSE IF tagName \in {"poem", "stanza", "v"} THEN wrapped("p class=verse", st)
        ELSE fb2ExtractFromElement(node, isItalic, isBold, st)

fb2ExtractFromElement(el, italic, bold, st) ==
    ForEach(LAMBDA s, kid : fb2ExtractNode(kid, italic, bold, s), st, el.kids)

\* one chapter of parseFb2: the whole body, or one section
fb2Chapter(el, newPage, st) ==
    LET chapterStartIndex == st.wordIndex
        s0 == IF newPage /\ st.wordIndex > 0
              THEN [st EXCEPT !.currentPage = @ + 1,
                              !.pageStarts = Append(@, st.wordIndex),
                              !.wordsOnCurrentPage = 0]
              ELSE st
        \* "if (wordIndex > chapterStartIndex)": the chapter is kept
        chapter(s2) ==
            IF s2.wordIndex > chapterStartIndex
            THEN [s2 EXCEPT
                    !.currentChapter = @ + 1,
                    !.chapters = Append(@, ChapterInfo({})),
                    !.chapterStarts = Append(@, chapterStartIndex),
                    !.chapterContents = Append(@,
                        ChapterContent(s2.currentChapter + 1, s2.htmlParts,
                                       chapterStartIndex, s2.wordIndex - 1))]
            ELSE s2
    IN  chapter(pushHtml(fb2ExtractFromElement(el, FALSE, FALSE,
                    [s0 EXCEPT !.htmlParts = <<Tag("div class=chapter")>>]),
                Close("div")))

\* querySelectorAll(':scope > section')
ChildrenTagged(el, tag) ==
    LET at == {i \in 1..Len(el.kids) : el.kids[i].tag = tag}
        nth(k) == CHOOSE i \in at : Cardinality({j \in at : j <= i}) = k
    IN  [k \in 1..Cardinality(at) |-> el.kids[nth(k)]]

parseFb2(xml) ==
    IF xml.parseError
    THEN [error |-> "Invalid FB2 file: XML parse error"]
    ELSE IF ~xml.hasBody
    THEN [error |-> "Invalid FB2 file: no body element found"]
    ELSE
    LET st0 == [f \in (DOMAIN WalkState) \cup
                      {"currentChapter", "chapters", "chapterStarts", "chapterContents"} |->
                  IF f \in DOMAIN WalkState THEN WalkState[f]
                  ELSE IF f = "currentChapter" THEN -1 ELSE <<>>]
        st1 == [st0 EXCEPT !.paragraphStarts = <<0>>]
        sections == ChildrenTagged(xml.body, "section")
        \* without sections the whole body is the one chapter, on the first page
        chapterElements == IF Len(sections) = 0 THEN <<xml.body>> ELSE sections
        parsed(st) ==
            [error |-> "",
             document |-> Document(updatePageIndex(st.words, st.pageStarts),
                                   st.paragraphStarts, st.pageStarts,
                                   Len(st.paragraphStarts), Len(st.pageStarts)),
             title |-> xml.bookTitle,
             preview |-> IF Len(st.chapters) > 0
                         THEN Preview(st.chapterContents, st.chapters, st.chapterStarts)
                         ELSE NoPreview]
    IN  parsed(ForEach(LAMBDA s, el : fb2Chapter(el, Len(sections) > 0, s),
                       st1, chapterElements))

fb2Parse(f) ==
    LET adapted(r) ==
            IF r.error = ""
            THEN AdapterParseResult(r.document, r.title, r.preview, <<>>, "fb2")
            ELSE AdapterParseResult(EmptyDocument, <<>>, NoPreview, <<r.error>>, "fb2")
    IN  adapted(parseFb2(f.content))

-----------------------------------------------------------------------------
(* HTML, DOCX and ODT: one node walker each, of the same shape *)

htmlBlockTags ==
    {"p", "h1", "h2", "h3", "h4", "h5", "h6", "li", "blockquote", "div", "section",
     "article", "aside", "main", "header", "footer", "pre", "figcaption", "td", "th"}
htmlSkipTags == {"script", "style", "noscript", "svg", "nav", "head", "meta", "link"}

docxBlockTags ==
    {"p", "h1", "h2", "h3", "h4", "h5", "h6", "li", "blockquote", "div", "table", "tr"}
docxSkipTags == {"script", "style", "noscript"}

\* ODT: p and h open a paragraph; s, tab and line-break are not descended into
odtBlockTags == {"p", "h"}
odtSkipTags == {"s", "tab", "line-break"}

blockTags(format) ==
    CASE format = "html" -> htmlBlockTags
      [] format = "docx" -> docxBlockTags
      [] format = "odt" -> odtBlockTags

skipTags(format) ==
    CASE format = "html" -> htmlSkipTags
      [] format = "docx" -> docxSkipTags
      [] format = "odt" -> odtSkipTags

\* s.includes(sub)
Contains(s, sub) ==
    \E i \in 0..(Len(s) - Len(sub)) : SubSeq(s, i + 1, i + Len(sub)) = sub

\* ODT's hasStyleProperty: the style name, lowercased, names the property
hasStyleProperty(el, property) ==
    LET lower == ToLowerCase(Chars(el.attr))
    IN  /\ el.attr # ""
        /\ \/ property = "italic" /\ (Contains(lower, Chars("italic"))
                                        \/ Contains(lower, Chars("emphasis")))
           \/ property = "bold" /\ (Contains(lower, Chars("bold"))
                                        \/ Contains(lower, Chars("strong")))

\* the tag a block element is written as in the preview markup
blockHtmlTag(tagName) ==
    IF tagName \in {"h1", "h2", "h3", "h4", "h5", "h6", "li", "blockquote"}
    THEN tagName ELSE "p"

RECURSIVE extractFromNode(_, _, _, _, _)
extractFromNode(format, node, italic, bold, st) ==
    LET tagName == node.tag
        isItalic == \/ italic
                    \/ format # "odt" /\ tagName \in {"i", "em"}
                    \/ format = "odt" /\ hasStyleProperty(node, "italic")
        isBold == \/ bold
                  \/ format # "odt" /\ tagName \in {"b", "strong"}
                  \/ format = "odt" /\ hasStyleProperty(node, "bold")
        isBlock == tagName \in blockTags(format)
        markup == isBlock /\ format # "odt"
        opened(s0) == IF markup THEN pushHtml(s0, Tag(blockHtmlTag(tagName))) ELSE s0
        closed(s2) == IF markup THEN pushHtml(s2, Close(blockHtmlTag(tagName))) ELSE s2
    IN  IF tagName = "#text" THEN pushWords(st, node.tokens, italic, bold, format)
        ELSE IF tagName \in skipTags(format) THEN st
        ELSE IF format = "docx" /\ tagName = "img"
        THEN (IF node.attr # "" THEN pushHtml(st, Marker("img", st.wordIndex)) ELSE st)
        ELSE closed(ForEach(LAMBDA s, child :
                                extractFromNode(format, child, isItalic, isBold, s),
                            opened(IF isBlock THEN startBlock(st) ELSE st), node.kids))

\* the single preview unit the HTML and DOCX walkers build
wholeDocumentPreview(words, htmlParts) ==
    IF Len(words) > 0
    THEN Preview(<<ChapterContent(0, htmlParts, 0, Len(words) - 1)>>,
                 <<ChapterInfo({})>>, <<0>>)
    ELSE Preview(<<>>, <<>>, <<>>)

\* name.replace(/\.(ext1|ext2)$/i, '')
stripExtension(name, extensions) ==
    LET cut == {n \in 1..Len(name) :
                    /\ name[n] = "."
                    /\ ToLowerCase(SubSeq(name, n + 1, Len(name))) \in extensions}
    IN  IF cut = {} THEN name
        ELSE SubSeq(name, 1, (CHOOSE n \in cut : TRUE) - 1)

\* the walk from the body, then "Update pageIndex for all words"
walkDocument(format, root, first) ==
    LET walked(st) ==
            [document |-> Document(updatePageIndex(st.words, st.pageStarts),
                                   st.paragraphStarts, st.pageStarts,
                                   Len(st.paragraphStarts), Len(st.pageStarts)),
             htmlParts |-> st.htmlParts]
    IN  walked(extractFromNode(format, root, FALSE, FALSE, first))

parseHtml(html) ==
    LET parsed(walk) ==
            [document |-> walk.document,
             title |-> Trim(html.title),
             preview |-> IF Len(walk.document.words) > 0
                         THEN wholeDocumentPreview(walk.document.words,
                                                   Append(walk.htmlParts, Close("div")))
                         ELSE NoPreview]
    IN  parsed(walkDocument("html", html.body,
                    [WalkState EXCEPT !.paragraphStarts = <<0>>,
                                      !.htmlParts = <<Tag("div class=html-content")>>]))

\* htmlAdapter.parse
htmlParse(f) ==
    LET adapted(r) ==
            AdapterParseResult(r.document,
                IF r.title # <<>> THEN r.title
                ELSE stripExtension(f.name, {Chars("html"), Chars("htm"), Chars("xhtml")}),
                r.preview, <<>>, "html")
    IN  adapted(parseHtml(f.content))

extractWordsFromHtml(html) ==
    LET extracted(walk) ==
            [document |-> walk.document,
             preview |-> wholeDocumentPreview(walk.document.words,
                                              Append(walk.htmlParts, Close("div")))]
    IN  extracted(walkDocument("docx", html.body,
                    [WalkState EXCEPT !.paragraphStarts = <<0>>,
                                      !.htmlParts = <<Tag("div class=docx-content")>>]))

\* the messages of mammoth's conversion that are warnings
mammothWarnings(messages) ==
    LET at == {i \in 1..Len(messages) : messages[i].type = "warning"}
        nth(k) == CHOOSE i \in at : Cardinality({j \in at : j <= i}) = k
    IN  [k \in 1..Cardinality(at) |-> messages[nth(k)].message]

\* docxAdapter.parse
docxParse(f) ==
    IF f.content.error # ""
    THEN AdapterParseResult(EmptyDocument, <<>>, NoPreview, <<f.content.error>>, "docx")
    ELSE LET adapted(parsed) ==
                AdapterParseResult(parsed.document,
                                   stripExtension(f.name, {Chars("docx")}),
                                   parsed.preview,
                                   mammothWarnings(f.content.messages), "docx")
         IN  adapted(extractWordsFromHtml(f.content))

parseOdtContent(xml) ==
    LET first == [WalkState EXCEPT !.paragraphStarts = <<0>>]
    IN  IF xml.hasBody THEN walkDocument("odt", xml.body, first).document
        ELSE Document(<<>>, first.paragraphStarts, first.pageStarts, 1, 1)

\* odtAdapter.parse
odtParse(f) ==
    IF f.content.error # ""
    THEN AdapterParseResult(EmptyDocument, <<>>, NoPreview, <<f.content.error>>, "odt")
    ELSE IF ~f.content.hasContent
    THEN AdapterParseResult(EmptyDocument, <<>>, NoPreview,
                            <<"Invalid ODT file: content.xml not found">>, "odt")
    ELSE AdapterParseResult(parseOdtContent(f.content),
            IF Trim(f.content.metaTitle) # <<>> THEN Trim(f.content.metaTitle)
            ELSE stripExtension(f.name, {Chars("odt")}),
            NoPreview, <<>>, "odt")

-----------------------------------------------------------------------------
(* PDF.  What pdf.js hands parsePdf: a load error or the pages, each a list  *)
(* of text items [tokens, y] (tokens: item.str split at white space, empty   *)
(* for an item that is not text or is blank), and the outline resolved to    *)
(* page indices.                                                             *)

PARAGRAPH_GAP_THRESHOLD == 15

NullY == -1

Abs(x) == IF x < 0 THEN -x ELSE x

\* one text item of a page
pdfItem(st, item, pageNum) ==
    IF item.tokens = <<>> THEN st
    ELSE
    LET gap == st.lastY # NullY /\ Abs(st.lastY - item.y) > PARAGRAPH_GAP_THRESHOLD
        paragraphIndex == IF gap THEN st.paragraphIndex + 1 ELSE st.paragraphIndex
        pushed(parts) ==
            [st EXCEPT
                !.paragraphStarts = IF gap THEN Append(@, st.wordIndex) ELSE @,
                !.paragraphIndex = paragraphIndex,
                !.lastY = item.y,
                !.words = @ \o [k \in 1..Len(parts) |->
                    Word(parts[k], paragraphIndex, pageNum - 1, FALSE, FALSE)],
                !.wordIndex = @ + Len(parts)]
    IN  pushed(FlatMapDashes(item.tokens))

\* the markup of the words first..last (global indices) of one page
generatePageHtml(words, first, last) ==
    <<Tag("div class=pdf-page")>>
    \o Concat([n \in 1..(last - first + 1) |->
        LET globalIndex == first + n - 1
            opens == \/ n = 1
                     \/ words[globalIndex + 1].paragraphIndex
                            # words[globalIndex].paragraphIndex
        IN  (IF opens /\ n > 1 THEN <<Close("p")>> ELSE <<>>)
            \o (IF opens THEN <<Tag("p")>> ELSE <<>>)
            \o <<Marker("span", globalIndex)>>])
    \o (IF last >= first THEN <<Close("p")>> ELSE <<>>)
    \o <<Close("div")>>

\* one page of the "Process each page" loop
pdfPage(st, items) ==
    LET pageNum == Len(st.pageStarts) + 1
        pageStartWordIndex == st.wordIndex
        s0 == [st EXCEPT !.pageStarts = Append(@, st.wordIndex),
                         !.paragraphStarts = Append(@, st.wordIndex),
                         !.paragraphIndex = @ + 1,
                         !.lastY = NullY]
        \* "Generate preview HTML for this page"
        preview(s1) ==
            LET pageEndWordIndex == s1.wordIndex - 1
            IN  IF s1.wordIndex > pageStartWordIndex
                THEN [s1 EXCEPT !.pageContents = Append(@,
                        [pageIndex |-> pageNum - 1,
                         htmlWithMarkers |->
                            generatePageHtml(s1.words, pageStartWordIndex, pageEndWordIndex),
                         wordRange |-> <<pageStartWordIndex, pageEndWordIndex>>])]
                ELSE s1
    IN  preview(ForEach(LAMBDA s, item : pdfItem(s, item, pageNum), s0, items))

parsePdf(pdf) ==
    IF pdf.loadError # ""
    THEN [words |-> <<>>, paragraphStarts |-> <<>>, pageStarts |-> <<>>,
          totalParagraphs |-> 0, totalPages |-> 0, title |-> <<>>,
          outline |-> <<>>, pageContents |-> <<>>,
          parseWarnings |->
            <<CASE pdf.loadError = "password" ->
                    "This PDF is password-protected and cannot be opened."
                [] pdf.loadError = "Invalid PDF" ->
                    "This file does not appear to be a valid PDF."
                [] OTHER -> "Failed to parse PDF: " \o pdf.loadError>>]
    ELSE
    LET parsed(st) ==
            [words |-> st.words, paragraphStarts |-> st.paragraphStarts,
             pageStarts |-> st.pageStarts,
             totalParagraphs |-> Len(st.paragraphStarts),
             totalPages |-> Len(pdf.pages), title |-> pdf.title,
             \* wordIndex: pageStarts[item.pageIndex] ?? 0
             outline |-> [k \in 1..Len(pdf.outline) |->
                            IF pdf.outline[k] + 1 \in DOMAIN st.pageStarts
                            THEN st.pageStarts[pdf.outline[k] + 1] ELSE 0],
             pageContents |-> st.pageContents,
             parseWarnings |->
                IF Len(st.words) = 0
                THEN <<"This PDF appears to be scanned or has no extractable text. RSVP reading requires text-based PDFs.">>
                ELSE IF Len(st.words) < 10
                THEN <<"This PDF has very little extractable text. It may be mostly images or scanned content.">>
                ELSE <<>>]
    IN  parsed(ForEach(pdfPage,
                       [words |-> <<>>, paragraphStarts |-> <<>>, pageStarts |-> <<>>,
                        pageContents |-> <<>>, wordIndex |-> 0, paragraphIndex |-> 0,
                        lastY |-> NullY],
                       pdf.pages))

\* pdfAdapter.parse
pdfParse(f) ==
    LET adapted(parsed) ==
        LET chapterContents == [k \in 1..Len(parsed.pageContents) |->
                ChapterContent(parsed.pageContents[k].pageIndex,
                               parsed.pageContents[k].htmlWithMarkers,
                               parsed.pageContents[k].wordRange[1],
                               parsed.pageContents[k].wordRange[2])]
            chapters == [k \in 1..Len(parsed.outline) |-> ChapterInfo({})]
        IN  AdapterParseResult(
                Document(parsed.words, parsed.paragraphStarts, parsed.pageStarts,
                         parsed.totalParagraphs, parsed.totalPages),
                parsed.title,
                IF Len(chapterContents) > 0
                THEN Preview(chapterContents, chapters,
                             IF Len(parsed.outline) > 0 THEN parsed.outline
                             ELSE parsed.pageStarts)
                ELSE NoPreview,
                parsed.parseWarnings, "pdf")
    IN  adapted(parsePdf(f.content))

-----------------------------------------------------------------------------
(* MOBI.  A file is its size, the PalmDB header (name, record count), the    *)
(* fields of record 0 (identifier, compression, encryption, text record      *)
(* count, full name) and the bytes of records 1, 2, ...                      *)

\* the back-reference loop: n bytes copied from distance back, one at a time
RECURSIVE copyBack(_, _, _)
copyBack(output, distance, n) ==
    IF n = 0 THEN output
    ELSE LET pos == Len(output) - distance
             byte == IF pos >= 0
                     THEN (IF pos + 1 \in DOMAIN output THEN output[pos + 1]
                           ELSE 0)   \* undefined, stored in the Uint8Array as 0
                     ELSE 0
         IN  copyBack(Append(output, byte), distance, n - 1)

\* what the back-reference loop computes in each of its n iterations: pos,
\* and output.length at that moment
copyPositions(output, distance, n) ==
    [j \in 1..n |-> [pos |-> Len(output) + (j - 1) - distance,
                     length |-> Len(output) + (j - 1)]]

\* decompressStep with 9 taken for the count of a literal run
decompressStepRunOfNine(compressed, st) ==
    IF st.i >= Len(compressed) \/ st.stopped THEN st
    ELSE
    LET byte == compressed[st.i + 1]
        i == st.i + 1
    IN  IF byte = 0 THEN [st EXCEPT !.i = i, !.output = Append(@, 0), !.copies = <<>>]
        ELSE IF byte >= 1 /\ byte <= 9
        THEN LET n == IF byte < Len(compressed) - i THEN byte ELSE Len(compressed) - i
             IN  [st EXCEPT !.i = i + n,
                            !.output = @ \o SubSeq(compressed, i + 1, i + n),
                            !.copies = <<>>]
        ELSE IF byte >= 9 /\ byte <= 127
        THEN [st EXCEPT !.i = i, !.output = Append(@, byte), !.copies = <<>>]
        ELSE IF byte >= 128 /\ byte <= 191
        THEN (IF i >= Len(compressed) THEN [st EXCEPT !.i = i, !.stopped = TRUE, !.copies = <<>>]
              ELSE LET next == compressed[i + 1]
                       distance == (((byte % 64) * 256) + next) \div 8
                       length == (next % 8) + 3
                   IN  [st EXCEPT !.i = i + 1,
                                  !.output = copyBack(@, distance, length),
                                  !.copies = copyPositions(st.output, distance, length)])
        ELSE [st EXCEPT !.i = i, !.output = @ \o <<32, byte - 128>>, !.copies = <<>>]

\* decompressStep with a back reference cut off by the end of the input left
\* where it is: no byte consumed, no break
decompressStepNoBreak(compressed, st) ==
    IF st.i >= Len(compressed) \/ st.stopped THEN st
    ELSE
    LET byte == compressed[st.i + 1]
        i == st.i + 1
    IN  IF byte = 0 THEN [st EXCEPT !.i = i, !.output = Append(@, 0), !.copies = <<>>]
        ELSE IF byte >= 1 /\ byte <= 8
        THEN LET n == IF byte < Len(compressed) - i THEN byte ELSE Len(compressed) - i
             IN  [st EXCEPT !.i = i + n,
                            !.output = @ \o SubSeq(compressed, i + 1, i + n),
                            !.copies = <<>>]
        ELSE IF byte >= 9 /\ byte <= 127
        THEN [st EXCEPT !.i = i, !.output = Append(@, byte), !.copies = <<>>]
        ELSE IF byte >= 128 /\ byte <= 191
        THEN (IF i >= Len(compressed) THEN st
              ELSE LET next == compressed[i + 1]
                       distance == (((byte % 64) * 256) + next) \div 8
                       length == (next % 8) + 3
                   IN  [st EXCEPT !.i = i + 1,
                                  !.output = copyBack(@, distance, length),
                                  !.copies = copyPositions(st.output, distance, length)])
        ELSE [st EXCEPT !.i = i, !.output = @ \o <<32, byte - 128>>, !.copies = <<>>]

\* one iteration of "while (i < compressed.length)"; i counts consumed bytes,
\* copies are the positions the iteration's back reference computed
decompressStep(compressed, st) ==
    IF st.i >= Len(compressed) \/ st.stopped THEN st
    ELSE
    LET byte == compressed[st.i + 1]
        i == st.i + 1
    IN  IF byte = 0 THEN [st EXCEPT !.i = i, !.output = Append(@, 0), !.copies = <<>>]
        ELSE IF byte >= 1 /\ byte <= 8
        THEN LET n == IF byte < Len(compressed) - i THEN byte ELSE Len(compressed) - i
             IN  [st EXCEPT !.i = i + n,
                            !.output = @ \o SubSeq(compressed, i + 1, i + n),
                            !.copies = <<>>]
        ELSE IF byte >= 9 /\ byte <= 127
        THEN [st EXCEPT !.i = i, !.output = Append(@, byte), !.copies = <<>>]
        ELSE IF byte >= 128 /\ byte <= 191
        THEN (IF i >= Len(compressed) THEN [st EXCEPT !.i = i, !.stopped = TRUE, !.copies = <<>>]
              ELSE LET next == compressed[i + 1]
                       distance == (((byte % 64) * 256) + next) \div 8
                       length == (next % 8) + 3
                   IN  [st EXCEPT !.i = i + 1,
                                  !.output = copyBack(@, distance, length),
                                  !.copies = copyPositions(st.output, distance, length)])
        ELSE [st EXCEPT !.i = i, !.output = @ \o <<32, byte - 128>>, !.copies = <<>>]

decompressPalmDoc(compressed) ==
    Loop(LAMBDA st : decompressStep(compressed, st),
         [i |-> 0, output |-> <<>>, stopped |-> FALSE, copies |-> <<>>],
         Len(compressed)).output

\* TextDecoder('utf-8').decode, on the bytes of the table; any other byte
\* decodes to one opaque character
decodeText(bytes) == [k \in 1..Len(bytes) |-> fromCharCode(bytes[k])]

\* the length of the match of /<br\s*\/?>/i at position i (0: none)
brTagLen(s, i) ==
    IF ~MatchAtIgnoreCase(s, i, Chars("<br")) THEN 0
    ELSE LET j == SkipSpace(s, i + 3)
             k == IF j <= Len(s) /\ s[j] = "/" THEN j + 1 ELSE j
         IN  IF k <= Len(s) /\ s[k] = ">" THEN k - i + 1 ELSE 0

\* of /<\/h[1-6]>/i
closeHeadingLen(s, i) ==
    IF /\ MatchAtIgnoreCase(s, i, Chars("</h"))
       /\ i + 4 <= Len(s)
       /\ s[i + 3] \in {"1", "2", "3", "4", "5", "6"}
       /\ s[i + 4] = ">"
    THEN 5 ELSE 0

\* of /<[^>]+>/
anyTagLen(s, i) ==
    IF s[i] # "<" THEN 0
    ELSE LET closes == {j \in (i + 1)..Len(s) : s[j] = ">"}
         IN  IF closes = {} THEN 0
             ELSE LET j == CHOOSE c \in closes : \A d \in closes : c <= d
                  IN  IF j >= i + 2 THEN j - i + 1 ELSE 0

\* of /&#(\d+);/
numericEntityLen(s, i) ==
    IF ~MatchAt(s, i, Chars("&#")) THEN 0
    ELSE LET others == {j \in (i + 2)..Len(s) : ~IsDigit(s[j])}
         IN  IF others = {} THEN 0
             ELSE LET j == CHOOSE c \in others : \A d \in others : c <= d
                  IN  IF j > i + 2 /\ s[j] = ";" THEN j - i + 1 ELSE 0

\* parseInt(digits, 10)
RECURSIVE parseInt(_)
parseInt(digits) ==
    IF digits = <<>> THEN 0
    ELSE 10 * parseInt(SubSeq(digits, 1, Len(digits) - 1))
         + (CHOOSE d \in 0..9 : DigitSeq[d + 1] = digits[Len(digits)])

literalLen(s, i, lit) == IF MatchAt(s, i, lit) THEN Len(lit) ELSE 0
literalLenIgnoreCase(s, i, lit) == IF MatchAtIgnoreCase(s, i, lit) THEN Len(lit) ELSE 0

\* "Remove HTML tags but preserve structure": the chain of replace calls
cleanMobiText(text) ==
    LET NewLine(s, i) == <<"\n">>
        BlankLine(s, i) == <<"\n", "\n">>
        Nothing(s, i) == <<>>
        t1 == ReplaceAll(text, brTagLen, NewLine)
        t2 == ReplaceAll(t1, LAMBDA s, i : literalLenIgnoreCase(s, i, Chars("</p>")), BlankLine)
        t3 == ReplaceAll(t2, LAMBDA s, i : literalLenIgnoreCase(s, i, Chars("</div>")), BlankLine)
        t4 == ReplaceAll(t3, closeHeadingLen, BlankLine)
        t5 == ReplaceAll(t4, anyTagLen, Nothing)
        t6 == ReplaceAll(t5, LAMBDA s, i : literalLen(s, i, Chars("&nbsp;")), LAMBDA s, i : <<" ">>)
        t7 == ReplaceAll(t6, LAMBDA s, i : literalLen(s, i, Chars("&amp;")), LAMBDA s, i : <<"&">>)
        t8 == ReplaceAll(t7, LAMBDA s, i : literalLen(s, i, Chars("&lt;")), LAMBDA s, i : <<"<">>)
        t9 == ReplaceAll(t8, LAMBDA s, i : literalLen(s, i, Chars("&gt;")), LAMBDA s, i : <<">">>)
        t10 == ReplaceAll(t9, LAMBDA s, i : literalLen(s, i, Chars("&quot;")), LAMBDA s, i : <<"\"">>)
    IN  ReplaceAll(t10, numericEntityLen,
                   LAMBDA s, i : <<fromCharCode(parseInt(
                        SubSeq(s, i + 2, i + numericEntityLen(s, i) - 2)))>>)

\* one paragraph of parseMobiText's forEach
mobiParagraph(st, paragraph, count) ==
    LET paragraphIndex == Len(st.paragraphStarts)
        pushed(splitWords) ==
            LET n == Len(splitWords)
                full == /\ st.wordsOnCurrentPage + n >= targetWordsPerPage
                        /\ paragraphIndex < count - 1
            IN  [st EXCEPT
                    !.paragraphStarts = Append(@, st.wordIndex),
                    !.words = @ \o [k \in 1..n |->
                        Word(splitWords[k], paragraphIndex, st.currentPage, FALSE, FALSE)],
                    !.wordIndex = @ + n,
                    !.currentPage = IF full THEN @ + 1 ELSE @,
                    !.pageStarts = IF full THEN Append(@, st.wordIndex + n) ELSE @,
                    !.wordsOnCurrentPage = IF full THEN 0 ELSE @ + n]
    IN  pushed(FlatMapDashes(Tokens(Trim(paragraph))))

parseMobiText(text) ==
    LET document(st) ==
            Document(updatePageIndex(st.words, st.pageStarts), st.paragraphStarts,
                     st.pageStarts, Len(st.paragraphStarts), Len(st.pageStarts))
        read(paragraphs) ==
            document(ForEach(LAMBDA t, paragraph :
                                mobiParagraph(t, paragraph, Len(paragraphs)),
                             WalkState, paragraphs))
    IN  read(SelectSeq(splitBlankLines(cleanMobiText(text)),
                       LAMBDA para : Len(Trim(para)) > 0))

\* one text record of parseMobiFile's loop: its text, or the error it throws
mobiRecord(st, recordData, compression) ==
    IF st.error # "" THEN st
    ELSE IF compression = 1
    THEN [st EXCEPT !.textParts = @ \o decodeText(recordData)]
    ELSE IF compression = 2
    THEN [st EXCEPT !.textParts = @ \o decodeText(decompressPalmDoc(recordData))]
    ELSE IF compression = 17480
    THEN [st EXCEPT !.error = "HUFF/CDIC compression is not supported. Please convert the file to EPUB using Calibre."]
    ELSE [st EXCEPT !.textParts = @ \o decodeText(recordData),
                    !.warnings = Append(@, "Unknown compression type: " \o ToString(compression))]

\* the text records read: records 1..textRecordCount that the file holds
mobiTextRecords(mobi) ==
    LET last == IF mobi.textRecordCount < mobi.recordCount - 1
                THEN mobi.textRecordCount ELSE mobi.recordCount - 1
    IN  SubSeq(mobi.records, 1, last)

\* the same, with the encryption check moved behind the record loop
parseMobiFileCheckLate(mobi) ==
    LET identWarnings == IF mobi.ident # "MOBI"
                         THEN <<"File appears to be PalmDOC format, not MOBI">> ELSE <<>>
        title == IF mobi.ident = "MOBI" /\ Trim(mobi.fullName) # <<>>
                 THEN Trim(mobi.fullName) ELSE mobi.name
        text(read) ==
            IF read.error # "" THEN [error |-> read.error]
            ELSE IF mobi.encryption # 0
            THEN [error |-> "This file is DRM-protected. QuickReader can only open DRM-free Kindle files."]
            ELSE IF Len(read.textParts) = 0 THEN [error |-> "No text content found in MOBI file"]
            ELSE [error |-> "", document |-> parseMobiText(read.textParts),
                  title |-> title, warnings |-> read.warnings]
    IN  IF mobi.byteLength < 100 THEN [error |-> "Invalid MOBI file: file too small"]
        ELSE IF mobi.recordCount < 2 THEN [error |-> "Invalid MOBI file: not enough records"]
        ELSE text(ForEach(LAMBDA st, rec : mobiRecord(st, rec, mobi.compression),
                          [error |-> "", textParts |-> <<>>, warnings |-> identWarnings],
                          mobiTextRecords(mobi)))

parseMobiFile(mobi) ==
    LET identWarnings == IF mobi.ident # "MOBI"
                         THEN <<"File appears to be PalmDOC format, not MOBI">> ELSE <<>>
        title == IF mobi.ident = "MOBI" /\ Trim(mobi.fullName) # <<>>
                 THEN Trim(mobi.fullName) ELSE mobi.name
        text(read) ==
            IF read.error # "" THEN [error |-> read.error]
            ELSE IF Len(read.textParts) = 0 THEN [error |-> "No text content found in MOBI file"]
            ELSE [error |-> "", document |-> parseMobiText(read.textParts),
                  title |-> title, warnings |-> read.warnings]
    IN  IF mobi.byteLength < 100 THEN [error |-> "Invalid MOBI file: file too small"]
        ELSE IF mobi.recordCount < 2 THEN [error |-> "Invalid MOBI file: not enough records"]
        ELSE IF mobi.encryption # 0
        THEN [error |-> "This file is DRM-protected. QuickReader can only open DRM-free Kindle files."]
        ELSE text(ForEach(LAMBDA st, rec : mobiRecord(st, rec, mobi.compression),
                          [error |-> "", textParts |-> <<>>, warnings |-> identWarnings],
                          mobiTextRecords(mobi)))

\* mobiAdapter.parse
mobiParse(f) ==
    LET fromName == stripExtension(f.name, {Chars("mobi"), Chars("azw"), Chars("azw3"),
                                            Chars("prc")})
        adapted(r) ==
            IF r.error # ""
            THEN AdapterParseResult(EmptyDocument, <<>>, NoPreview, <<r.error>>, "mobi")
            ELSE IF r.document.totalWords = 0
            THEN AdapterParseResult(r.document, fromName, NoPreview,
                    <<"No readable text found. For best results, convert to EPUB using Calibre.">>,
                    "mobi")
            ELSE AdapterParseResult(r.document,
                    IF r.title # <<>> THEN r.title ELSE fromName,
                    NoPreview, r.warnings, "mobi")
    IN  adapted(parseMobiFile(f.content))

-----------------------------------------------------------------------------
(* RTF.  rtfToText scans the characters of the file; st.i is the 0-based     *)
(* position, st.text the characters emitted, st.italic and st.bold the       *)
(* marks pushed beside them.                                                 *)

skipDestinations ==
    {Chars("fonttbl"), Chars("colortbl"), Chars("stylesheet"), Chars("info"),
     Chars("pict"), Chars("object"), Chars("datafield"), Chars("themedata"),
     Chars("colorschememapping")}

\* the typographic quotes, as single characters
LeftQuote == "{lsquo}"
RightQuote == "{rsquo}"

\* the first 0-based position >= i of s that holds no letter / no digit
letterRunEnd(s, i) ==
    LET others == {j \in i..(Len(s) - 1) : ~IsLetter(s[j + 1])}
    IN  IF others = {} THEN Len(s) ELSE CHOOSE j \in others : \A k \in others : j <= k

digitRunEnd(s, i) ==
    LET others == {j \in i..(Len(s) - 1) : ~IsDigit(s[j + 1])}
    IN  IF others = {} THEN Len(s) ELSE CHOOSE j \in others : \A k \in others : j <= k

\* rtfEmit with the part pushed twice
rtfEmitTwice(st, part, italic, bold) ==
    [st EXCEPT !.text = @ \o part \o part,
               !.italic = Append(@, italic),
               !.bold = Append(@, bold)]

\* textParts.push(part); italicMarks.push(italic); boldMarks.push(bold)
rtfEmit(st, part, italic, bold) ==
    [st EXCEPT !.text = @ \o part,
               !.italic = Append(@, italic),
               !.bold = Append(@, bold)]

\* "Process control word": the switch, entered with the position after the
\* control word, its parameter and the optional space
rtfControlWord(rtf, st, controlWord, param, i) ==
    LET at == [st EXCEPT !.i = i]
        same(part) == rtfEmit(at, part, st.currentItalic, st.currentBold)
    IN  CASE controlWord \in {Chars("par"), Chars("line")} ->
                rtfEmit(at, <<"\n", "\n">>, FALSE, FALSE)
          [] controlWord = Chars("tab") -> same(<<" ">>)
          [] controlWord = Chars("i") -> [at EXCEPT !.currentItalic = (param # Chars("0"))]
          [] controlWord = Chars("b") -> [at EXCEPT !.currentBold = (param # Chars("0"))]
          [] controlWord = Chars("plain") ->
                [at EXCEPT !.currentItalic = FALSE, !.currentBold = FALSE]
          [] controlWord = Chars("u") ->
                LET pushed == IF param # <<>> /\ param[1] # "-"
                              THEN same(<<fromCharCode(parseInt(param))>>)
                              ELSE at   \* no parameter, a negative one, or NaN
                IN  IF i < Len(rtf) /\ rtf[i + 1] = "?"
                    THEN [pushed EXCEPT !.i = i + 1] ELSE pushed
          [] controlWord = Chars("emdash") -> same(<<EmDash>>)
          [] controlWord = Chars("endash") -> same(<<EnDash>>)
          [] controlWord = Chars("ldblquote") -> same(<<"\"">>)
          [] controlWord = Chars("rdblquote") -> same(<<"\"">>)
          [] controlWord = Chars("lquote") -> same(<<LeftQuote>>)
          [] controlWord = Chars("rquote") -> same(<<RightQuote>>)
          [] OTHER -> IF controlWord \in skipDestinations
                      THEN [at EXCEPT !.skipGroup = TRUE] ELSE at

\* the branch "if (char === '\\')": i is the position after the backslash
rtfBackslash(rtf, st, i) ==
    IF i >= Len(rtf) THEN [st EXCEPT !.i = i, !.done = TRUE]
    ELSE
    LET nextChar == rtf[i + 1]
        \* "Parse control word", its letters ending before position wordEnd
        control(wordEnd) ==
            LET controlWord == SubSeq(rtf, i + 1, wordEnd)
                hasParam == /\ wordEnd < Len(rtf)
                            /\ (rtf[wordEnd + 1] = "-" \/ IsDigit(rtf[wordEnd + 1]))
                digitsFrom == IF hasParam /\ rtf[wordEnd + 1] = "-"
                              THEN wordEnd + 1 ELSE wordEnd
                \* "Parse optional numeric parameter", ending before paramEnd,
                \* and "Skip optional space after control word"
                switch(paramEnd) ==
                    rtfControlWord(rtf, st, controlWord, SubSeq(rtf, wordEnd + 1, paramEnd),
                                   IF paramEnd < Len(rtf) /\ rtf[paramEnd + 1] = " "
                                   THEN paramEnd + 1 ELSE paramEnd)
            IN  switch(IF hasParam THEN digitRunEnd(rtf, digitsFrom) ELSE wordEnd)
    IN  IF nextChar \in {"\\", "{", "}"}
        THEN rtfEmit([st EXCEPT !.i = i + 1], <<nextChar>>, st.currentItalic, st.currentBold)
        ELSE IF nextChar \in {"\n", "\r"} THEN [st EXCEPT !.i = i + 1]
        ELSE control(letterRunEnd(rtf, i))

\* one iteration of "while (i < rtf.length)"
rtfStep(rtf, st) ==
    IF st.i >= Len(rtf) \/ st.done THEN st
    ELSE
    LET char == rtf[st.i + 1]
    IN  IF char = "{" THEN [st EXCEPT !.inGroup = @ + 1, !.i = @ + 1]
        ELSE IF char = "}"
        THEN [st EXCEPT !.inGroup = @ - 1,
                        !.skipGroup = IF @ /\ st.inGroup - 1 = 0 THEN FALSE ELSE @,
                        !.i = @ + 1]
        ELSE IF st.skipGroup THEN [st EXCEPT !.i = @ + 1]
        ELSE IF char = "\\" THEN rtfBackslash(rtf, st, st.i + 1)
        ELSE IF char # "\r" /\ char # "\n"
        THEN rtfEmit([st EXCEPT !.i = @ + 1], <<char>>, st.currentItalic, st.currentBold)
        ELSE [st EXCEPT !.i = @ + 1]

rtfToText(rtf) ==
    LET joined(st) == [text |-> st.text, italic |-> st.italic, bold |-> st.bold]
    IN  joined(Loop(LAMBDA t : rtfStep(rtf, t),
                    [i |-> 0, text |-> <<>>, italic |-> <<>>, bold |-> <<>>,
                     currentItalic |-> FALSE, currentBold |-> FALSE,
                     inGroup |-> 0, skipGroup |-> FALSE, done |-> FALSE],
                    Len(rtf)))

\* text.indexOf(word, from): the 0-based position of the first occurrence at
\* or after from, -1 when there is none
indexOf(text, word, from) ==
    LET start == IF from < 0 THEN 0 ELSE from
        found == {j \in start..(Len(text) - Len(word)) : MatchAt(text, j + 1, word)}
    IN  IF found = {} THEN -1 ELSE CHOOSE j \in found : \A k \in found : j <= k

\* one word of a paragraph of parseRtfText
rtfWord(rtfResult, paragraphIndex, st, wordText) ==
    LET pushed(wordStart) ==
            LET isItalic == IF wordStart >= 0 /\ wordStart < Len(rtfResult.italic)
                            THEN rtfResult.italic[wordStart + 1] ELSE FALSE
                isBold == IF wordStart >= 0 /\ wordStart < Len(rtfResult.bold)
                          THEN rtfResult.bold[wordStart + 1] ELSE FALSE
            IN  [st EXCEPT
                    !.charIndex = wordStart + Len(wordText),
                    !.words = Append(@, Word(wordText, paragraphIndex, st.currentPage,
                                             isItalic, isBold)),
                    !.wordIndex = @ + 1,
                    !.wordsOnCurrentPage = @ + 1]
    IN  pushed(indexOf(rtfResult.text, wordText, st.charIndex))

\* one paragraph of parseRtfText's forEach
rtfParagraph(rtfResult, st, paragraph, count) ==
    LET paragraphIndex == Len(st.paragraphStarts)
        splitWords == FlatMapDashes(Tokens(Trim(paragraph)))
        begun == [st EXCEPT !.paragraphStarts = Append(@, st.wordIndex)]
        \* "Check for page break at paragraph boundary"
        pageBreak(after) ==
            IF after.wordsOnCurrentPage >= targetWordsPerPage /\ paragraphIndex < count - 1
            THEN [after EXCEPT !.currentPage = @ + 1,
                               !.pageStarts = Append(@, after.wordIndex),
                               !.wordsOnCurrentPage = 0]
            ELSE after
    IN  pageBreak(ForEach(LAMBDA t, wordText :
                            rtfWord(rtfResult, paragraphIndex, t, wordText),
                          begun, splitWords))

parseRtfText(rtfResult) ==
    LET document(st) ==
            Document(updatePageIndex(st.words, st.pageStarts), st.paragraphStarts,
                     st.pageStarts, Len(st.paragraphStarts), Len(st.pageStarts))
        read(paragraphs) ==
            document(ForEach(LAMBDA t, paragraph :
                                rtfParagraph(rtfResult, t, paragraph, Len(paragraphs)),
                             [words |-> <<>>, paragraphStarts |-> <<>>, pageStarts |-> <<0>>,
                              wordIndex |-> 0, charIndex |-> 0, currentPage |-> 0,
                              wordsOnCurrentPage |-> 0],
                             paragraphs))
    IN  read(SelectSeq(splitBlankLines(rtfResult.text), LAMBDA para : Len(Trim(para)) > 0))

\* rtfAdapter.parse
rtfParse(f) ==
    IF ~MatchAt(f.content.text, 1, Chars("{\\rtf"))
    THEN AdapterParseResult(EmptyDocument, <<>>, NoPreview,
                            <<"Invalid RTF file: missing RTF header">>, "rtf")
    ELSE AdapterParseResult(parseRtfText(rtfToText(f.content.text)),
                            stripExtension(f.name, {Chars("rtf")}),
                            NoPreview, <<>>, "rtf")

-----------------------------------------------------------------------------
(* Plain text.  text-parser's parseText: paragraphs are separated by blank   *)
(* lines, a paragraph's white-space separated tokens are cut at interior     *)
(* dashes, and a page ends with the paragraph that fills it.                 *)

parseText(text) ==
    LET document(st) ==
            Document(updatePageIndex(st.words, st.pageStarts), st.paragraphStarts,
                     st.pageStarts, Len(st.paragraphStarts), Len(st.pageStarts))
        read(paragraphs) ==
            document(ForEach(LAMBDA t, paragraph :
                                mobiParagraph(t, paragraph, Len(paragraphs)),
                             WalkState, paragraphs))
    IN  read(SelectSeq(splitBlankLines(text), LAMBDA para : Len(Trim(para)) > 0))

\* textAdapter.parse
textParse(f) ==
    AdapterParseResult(parseText(f.content.text),
                       stripExtension(f.name, {Chars("txt"), Chars("text")}),
                       NoPreview, <<>>, "text")

-----------------------------------------------------------------------------
(* Markdown.  parseMarkdown's closures share the parser state st: words,     *)
(* paragraphStarts, contentBlocks, wordIndex, paragraphIndex, title (<<>>:   *)
(* not set), currentBlockHtml, currentBlockWordStart, and the line loop's    *)
(* inCodeBlock, codeBlockContent, codeBlockLang, paragraphLines, listItems,  *)
(* currentListType.                                                          *)

\* s.split(sep), sep a single character
Split(s, sep) ==
    LET st == ForEach(LAMBDA t, c :
                        IF c = sep THEN [out |-> Append(t.out, t.cur), cur |-> <<>>]
                        ELSE [t EXCEPT !.cur = Append(@, c)],
                      [out |-> <<>>, cur |-> <<>>], s)
    IN  Append(st.out, st.cur)

\* parts.join(sep)
Join(parts, sep) ==
    Concat([k \in 1..Len(parts) |-> IF k = 1 THEN parts[k] ELSE sep \o parts[k]])

\* the first position >= i of s that holds c (0: none)
firstAt(s, c, i) ==
    LET at == {j \in i..Len(s) : s[j] = c}
    IN  IF at = {} THEN 0 ELSE CHOOSE j \in at : \A k \in at : j <= k

\* /\w/
IsWordChar(c) == IsLetter(c) \/ IsDigit(c) \/ c = "_"

\* a piece of preview markup that shows text without word markers
Verbatim(tag, text) == [tag |-> tag, closing |-> FALSE, text |-> text]

ContentBlock(type, html, wordStart, wordEnd) ==
    [type |-> type, html |-> html, wordStart |-> wordStart, wordEnd |-> wordEnd]

addText(st, text, italic, bold) ==
    LET pushed(splitWords) ==
            LET n == Len(splitWords)
            IN  [st EXCEPT
                    !.words = @ \o [k \in 1..n |->
                        Word(splitWords[k], st.paragraphIndex, 0, italic, bold)],
                    !.currentBlockHtml = @ \o Concat([k \in 1..n |->
                        wordHtml("markdown", st.wordIndex + k - 1, italic, bold)]),
                    !.wordIndex = @ + n]
    IN  pushed(FlatMapDashes(Tokens(text)))

\* the length of the match of /!\[([^\]]*)\]\([^)]+\)/ at position i (0: none)
imageLen(s, i) ==
    IF ~MatchAt(s, i, Chars("![")) THEN 0
    ELSE LET j == firstAt(s, "]", i + 2)
             k == IF j = 0 THEN 0 ELSE firstAt(s, ")", j + 2)
         IN  IF j > 0 /\ j < Len(s) /\ s[j + 1] = "(" /\ k >= j + 3
             THEN k - i + 1 ELSE 0

\* the match of /^\[([^\]]+)\]\([^)]+\)/ on s.slice(i): its length (0: none)
\* and the link text
linkMatch(s, i) ==
    LET j == firstAt(s, "]", i + 1)
        k == IF j = 0 THEN 0 ELSE firstAt(s, ")", j + 2)
    IN  IF s[i] = "[" /\ j >= i + 2 /\ j < Len(s) /\ s[j + 1] = "(" /\ k >= j + 3
        THEN [length |-> k - i + 1, text |-> SubSeq(s, i + 1, j - 1)]
        ELSE [length |-> 0, text |-> <<>>]

\* flushText with the two emphasis flags handed over in each other's place
flushTextSwapped(t) ==
    IF t.currentText = <<>> THEN t
    ELSE [t EXCEPT !.st = addText(t.st, t.currentText, t.inBold, t.inItalic),
                   !.currentText = <<>>]

\* "if (currentText) { addText(currentText, inItalic, inBold); currentText = ''; }"
flushText(t) ==
    IF t.currentText = <<>> THEN t
    ELSE [t EXCEPT !.st = addText(t.st, t.currentText, t.inItalic, t.inBold),
                   !.currentText = <<>>]

\* one iteration of parseInline's "while (i < text.length)"; t.i is 1-based
parseInlineStep(text, t) ==
    IF t.i > Len(text) THEN t
    ELSE
    LET i == t.i
        c == text[i]
        next == IF i < Len(text) THEN text[i + 1] ELSE ""
        codeStart == c = BackTick /\ next # BackTick
        end == IF codeStart THEN firstAt(text, BackTick, i + 1) ELSE 0
        prevChar == IF i > 1 THEN text[i - 1] ELSE " "
        nextChar == IF i < Len(text) THEN text[i + 1] ELSE " "
        \* a link: its anchor, the words of its text, the end of the anchor
        anchor(opened, link) ==
            [opened EXCEPT
                !.i = i + link.length,
                !.st = [addText(opened.st, link.text, t.inItalic, t.inBold)
                          EXCEPT !.currentBlockHtml = Append(@, Close("a"))]]
        \* the branches of the loop body, flushed being t after the flush of
        \* the pending text; a backtick without its pair flushes it as well
        branch(flushed, link) ==
            IF codeStart /\ end > 0
            THEN [flushed EXCEPT !.i = end + 1,
                                 !.st.currentBlockHtml = @ \o
                                    <<Verbatim("code", SubSeq(text, i + 1, end - 1)),
                                      Close("code")>>]
            ELSE IF link.length > 0
            THEN anchor([flushed EXCEPT !.st.currentBlockHtml = Append(@, Tag("a"))], link)
            ELSE IF MatchAt(text, i, Chars("***"))
            THEN [flushed EXCEPT !.inBold = ~@, !.inItalic = ~@, !.i = i + 3]
            ELSE IF MatchAt(text, i, Chars("**"))
            THEN [flushed EXCEPT !.inBold = ~@, !.i = i + 2]
            ELSE IF MatchAt(text, i, Chars("__"))
            THEN [flushed EXCEPT !.inBold = ~@, !.i = i + 2]
            ELSE IF c = "*" /\ next # "*"
            THEN [flushed EXCEPT !.inItalic = ~@, !.i = i + 1]
            ELSE IF c = "_" /\ next # "_" /\ (~IsWordChar(prevChar) \/ ~IsWordChar(nextChar))
            THEN [flushed EXCEPT !.inItalic = ~@, !.i = i + 1]
            ELSE [(IF codeStart THEN flushed ELSE t)
                    EXCEPT !.currentText = Append(@, c), !.i = i + 1]
    IN  branch(flushText(t), linkMatch(text, i))

parseInline(st, rawText) ==
    LET scan(text) ==
            Loop(LAMBDA x : parseInlineStep(text, x),
                 [i |-> 1, currentText |-> <<>>, inBold |-> FALSE, inItalic |-> FALSE,
                  st |-> st],
                 Len(text))
    IN  flushText(scan(ReplaceAll(rawText, imageLen, LAMBDA s, i : <<>>))).st

\* flushBlock without the test of currentBlockHtml: a block without wrapper is lost
flushBlockWrappedOnly(st, wrapperStart, wrapperEnd) ==
    LET pushed ==
            IF wrapperStart # <<>>
            THEN [st EXCEPT !.contentBlocks = Append(@,
                    ContentBlock("text", wrapperStart \o st.currentBlockHtml \o wrapperEnd,
                                 st.currentBlockWordStart, st.wordIndex - 1))]
            ELSE st
    IN  [pushed EXCEPT !.currentBlockHtml = <<>>,
                       !.currentBlockWordStart = st.wordIndex]

flushBlock(st, wrapperStart, wrapperEnd) ==
    LET pushed ==
            IF Len(st.currentBlockHtml) > 0 \/ wrapperStart # <<>>
            THEN [st EXCEPT !.contentBlocks = Append(@,
                    ContentBlock("text", wrapperStart \o st.currentBlockHtml \o wrapperEnd,
                                 st.currentBlockWordStart, st.wordIndex - 1))]
            ELSE st
    IN  [pushed EXCEPT !.currentBlockHtml = <<>>,
                       !.currentBlockWordStart = st.wordIndex]

startParagraph(st) ==
    IF st.wordIndex > 0
    THEN [st EXCEPT !.paragraphIndex = @ + 1,
                    !.paragraphStarts = Append(@, st.wordIndex)]
    ELSE st

\* the test both branches of isContinuation come down to: /^[a-z]/ on the
\* trimmed line (the word pattern's branch returns that same test)
isContinuation(line) ==
    LET trimmed == Trim(line)
    IN  trimmed # <<>> /\ IsLower(trimmed[1])

isIncomplete(line) ==
    LET trimmed == Trim(line)
        n == Len(trimmed)
        stops == {".", "!", "?", ":", ";"}
    IN  /\ trimmed # <<>>
        /\ trimmed[n] \notin stops
        /\ ~(n >= 2 /\ trimmed[n] \in {"'", "\""} /\ trimmed[n - 1] \in stops)

\* trimmed.startsWith(three backticks)
startsFence(line) == MatchAt(Trim(line), 1, <<BackTick, BackTick, BackTick>>)

\* one iteration of the first pass "while (i < rawLines.length)"; t.i is 0-based
normalizeStep(rawLines, t) ==
    IF t.i >= Len(rawLines) THEN t
    ELSE
    LET i == t.i
        line == rawLines[i + 1]
        \* the first line after i that closes the fence (Len: none)
        fences == {j \in (i + 1)..(Len(rawLines) - 1) : startsFence(rawLines[j + 1])}
        close == IF fences = {} THEN Len(rawLines)
                 ELSE CHOOSE j \in fences : \A k \in fences : j <= k
        copied == IF close < Len(rawLines) THEN close + 1 ELSE close
        \* the first non-blank line after i (Len: none)
        solid == {j \in (i + 1)..(Len(rawLines) - 1) : Trim(rawLines[j + 1]) # <<>>}
        j == IF solid = {} THEN Len(rawLines)
             ELSE CHOOSE a \in solid : \A b \in solid : a <= b
    IN  IF startsFence(line)
        THEN [i |-> copied,
              normalizedLines |-> t.normalizedLines \o SubSeq(rawLines, i + 1, copied)]
        ELSE IF /\ Trim(line) # <<>> /\ isIncomplete(Trim(line))
                /\ j > i + 1 /\ j < Len(rawLines) /\ isContinuation(rawLines[j + 1])
        THEN [i |-> j, normalizedLines |-> Append(t.normalizedLines, line)]
        ELSE [i |-> i + 1, normalizedLines |-> Append(t.normalizedLines, line)]

normalizeLines(rawLines) ==
    Loop(LAMBDA t : normalizeStep(rawLines, t),
         [i |-> 0, normalizedLines |-> <<>>], Len(rawLines)).normalizedLines

flushParagraph(st) ==
    IF Len(st.paragraphLines) = 0 THEN st
    ELSE LET paragraphText == Join(st.paragraphLines, <<" ">>)
             begun == [startParagraph([st EXCEPT !.paragraphLines = <<>>])
                        EXCEPT !.currentBlockWordStart = st.wordIndex,
                               !.currentBlockHtml = <<>>]
         IN  flushBlock(parseInline(begun, paragraphText), <<Tag("p")>>, <<Close("p")>>)

flushList(st) ==
    IF Len(st.listItems) = 0 \/ st.currentListType = "none" THEN st
    ELSE LET tag == st.currentListType
             listWordStart == st.wordIndex
             item(t, text) ==
                [parseInline([startParagraph(t) EXCEPT
                                !.currentBlockHtml = Append(@, Tag("li"))], text)
                    EXCEPT !.currentBlockHtml = Append(@, Close("li"))]
             block(done) ==
                [done EXCEPT
                    !.contentBlocks = Append(@,
                        ContentBlock("text", Append(done.currentBlockHtml, Close(tag)),
                                     listWordStart, done.wordIndex - 1)),
                    !.listItems = <<>>,
                    !.currentListType = "none",
                    !.currentBlockHtml = <<>>,
                    !.currentBlockWordStart = done.wordIndex]
         IN  block(ForEach(item, [st EXCEPT !.currentBlockHtml = <<Tag(tag)>>],
                           st.listItems))

\* the match of /^<prefix>\s+(.+)$/ on s, the prefix being the first p
\* characters of s: white space, then a rest without line terminators
restAfterSpace(s, p) ==
    LET j == SkipSpace(s, p + 1)
        rest == SubSeq(s, j, Len(s))
    IN  IF /\ p + 1 <= Len(s) /\ IsSpace(s[p + 1]) /\ j <= Len(s)
           /\ \A k \in 1..Len(rest) : rest[k] \notin {"\n", "\r"}
        THEN [ok |-> TRUE, text |-> rest]
        ELSE [ok |-> FALSE, text |-> <<>>]

NoMatch == [ok |-> FALSE, text |-> <<>>]

\* the number of hash marks at the start of s
hashRun(s) ==
    LET others == {j \in 1..Len(s) : s[j] # "#"}
    IN  IF others = {} THEN Len(s) ELSE (CHOOSE j \in others : \A k \in others : j <= k) - 1

\* /^(#{1,6})\s+(.+)$/
headerMatch(trimmedLine) ==
    IF hashRun(trimmedLine) \in 1..6
    THEN restAfterSpace(trimmedLine, hashRun(trimmedLine)) ELSE NoMatch

\* /^[-*_]{3,}$/
isHorizontalRule(trimmedLine) ==
    /\ Len(trimmedLine) >= 3
    /\ \A k \in 1..Len(trimmedLine) : trimmedLine[k] \in {"-", "*", "_"}

\* /^\*\*-\s+(.+)$/
boldListMatch(trimmedLine) ==
    IF MatchAt(trimmedLine, 1, Chars("**-")) THEN restAfterSpace(trimmedLine, 3) ELSE NoMatch

\* /^[\*\-\+]\s+(.+)$/
ulMatch(trimmedLine) ==
    IF trimmedLine # <<>> /\ trimmedLine[1] \in {"*", "-", "+"}
    THEN restAfterSpace(trimmedLine, 1) ELSE NoMatch

\* /^\d+\.\s+(.+)$/
olMatch(trimmedLine) ==
    LET d == digitRunEnd(trimmedLine, 0)
    IN  IF d >= 1 /\ d < Len(trimmedLine) /\ trimmedLine[d + 1] = "."
        THEN restAfterSpace(trimmedLine, d + 1) ELSE NoMatch

\* /^[\*\-\+]\s+/ or /^\*\*-\s+/
isListMarker(trimmedLine) ==
    \/ /\ Len(trimmedLine) >= 2 /\ trimmedLine[1] \in {"*", "-", "+"}
       /\ IsSpace(trimmedLine[2])
    \/ /\ Len(trimmedLine) >= 4 /\ MatchAt(trimmedLine, 1, Chars("**-"))
       /\ IsSpace(trimmedLine[4])

\* headerText.replace(/[*_`\[\]]/g, '')
stripMarkup(text) ==
    SelectSeq(text, LAMBDA c : c \notin {"*", "_", BackTick, "[", "]"})

codeBlock(st) ==
    ContentBlock("code",
                 <<Tag("pre"), Verbatim("code", Join(st.codeBlockContent, <<"\n">>)),
                   Close("code"), Close("pre")>>,
                 st.wordIndex, st.wordIndex - 1)

\* one iteration of "for (let idx = 0; idx < lines.length; idx++)"
markdownLine(st, line) ==
    LET begin(t) == [startParagraph(t) EXCEPT !.currentBlockWordStart = t.wordIndex,
                                              !.currentBlockHtml = <<>>]
        \* "if (currentListType === other) flushList(); currentListType = type",
        \* listFlushed being t after flushList
        withType(t, listFlushed, type, other) ==
            [(IF t.currentListType = other THEN listFlushed ELSE t)
                EXCEPT !.currentListType = type]
        heading(flushed, level, headerText) ==
            LET titled == IF level = 1 /\ flushed.title = <<>>
                          THEN [flushed EXCEPT !.title = stripMarkup(headerText)]
                          ELSE flushed
                opened == [begin(titled) EXCEPT
                            !.currentBlockHtml = <<Tag("h" \o ToString(level))>>]
            IN  flushBlock([parseInline(opened, headerText) EXCEPT
                                !.currentBlockHtml = Append(@, Close("h" \o ToString(level)))],
                           <<>>, <<>>)
        \* the branches of the loop body: paragraphFlushed is st after
        \* flushParagraph(), flushed is st after flushParagraph(); flushList()
        branch(trimmedLine, paragraphFlushed, flushed) ==
            LET isIndented == line # <<>> /\ line[1] \in {"\t", " "} /\ Len(trimmedLine) > 0
                isNestedListItem == isIndented /\ isListMarker(trimmedLine)
            IN  IF MatchAt(trimmedLine, 1, <<BackTick, BackTick, BackTick>>)
                THEN IF ~st.inCodeBlock
                     THEN [flushed EXCEPT
                            !.inCodeBlock = TRUE,
                            !.codeBlockLang = Trim(SubSeq(trimmedLine, 4, Len(trimmedLine))),
                            !.codeBlockContent = <<>>]
                     ELSE [flushed EXCEPT !.contentBlocks = Append(@, codeBlock(flushed)),
                                          !.inCodeBlock = FALSE,
                                          !.codeBlockContent = <<>>,
                                          !.codeBlockLang = <<>>]
                ELSE IF st.inCodeBlock
                THEN [st EXCEPT !.codeBlockContent = Append(@, line)]
                ELSE IF trimmedLine = <<>> THEN flushed
                ELSE IF headerMatch(trimmedLine).ok
                THEN heading(flushed, hashRun(trimmedLine), headerMatch(trimmedLine).text)
                ELSE IF isHorizontalRule(trimmedLine)
                THEN [flushed EXCEPT !.contentBlocks =
                        Append(@, ContentBlock("hr", <<Tag("hr")>>,
                                               flushed.wordIndex, flushed.wordIndex - 1))]
                ELSE IF trimmedLine[1] = ">"
                THEN flushBlock(parseInline(begin(flushed),
                                    SubSeq(trimmedLine, SkipSpace(trimmedLine, 2),
                                           Len(trimmedLine))),
                                <<Tag("blockquote")>>, <<Close("blockquote")>>)
                ELSE IF isIndented /\ ~isNestedListItem
                THEN IF Len(st.listItems) > 0
                     THEN [st EXCEPT !.listItems[Len(st.listItems)] = @ \o <<" ">> \o trimmedLine]
                     ELSE [st EXCEPT !.paragraphLines = Append(@, trimmedLine)]
                ELSE IF boldListMatch(trimmedLine).ok
                THEN [withType(paragraphFlushed, flushed, "ul", "ol") EXCEPT
                        !.listItems = Append(@, Chars("**") \o boldListMatch(trimmedLine).text)]
                ELSE IF ulMatch(trimmedLine).ok
                THEN [withType(paragraphFlushed, flushed, "ul", "ol") EXCEPT
                        !.listItems = Append(@, ulMatch(trimmedLine).text)]
                ELSE IF olMatch(trimmedLine).ok
                THEN [withType(paragraphFlushed, flushed, "ol", "ul") EXCEPT
                        !.listItems = Append(@, olMatch(trimmedLine).text)]
                ELSE [flushList(st) EXCEPT !.paragraphLines = Append(@, trimmedLine)]
        lists(paragraphFlushed) ==
            branch(Trim(line), paragraphFlushed, flushList(paragraphFlushed))
    IN  lists(flushParagraph(st))

\* groupBlock with a finished page's range ending one word late
groupBlockEndAfter(pg, block) ==
    LET blockWordCount == IF block.wordEnd >= block.wordStart
                          THEN block.wordEnd - block.wordStart + 1 ELSE 0
        break == /\ pg.currentPageWordCount > 0
                 /\ pg.currentPageWordCount + blockWordCount > targetWordsPerPage
        turned ==
            IF break
            THEN [pg EXCEPT
                    !.chapterContents =
                        IF Len(pg.currentPageHtml) > 0
                        THEN Append(@, ChapterContent(Len(pg.chapterContents),
                                pg.currentPageHtml, pg.currentPageWordStart,
                                pg.currentPageWordStart + pg.currentPageWordCount))
                        ELSE @,
                    !.pageStarts = Append(@, pg.currentPageWordStart + pg.currentPageWordCount),
                    !.currentPageHtml = <<>>,
                    !.currentPageWordStart = block.wordStart,
                    !.currentPageWordCount = 0]
            ELSE pg
    IN  [turned EXCEPT
            !.currentPageHtml = @ \o block.html,
            !.currentPageWordStart =
                IF blockWordCount > 0 /\ turned.currentPageWordCount = 0
                THEN block.wordStart ELSE @,
            !.currentPageWordCount = @ + blockWordCount]

\* groupBlock with the new page started one word early
groupBlockOneEarly(pg, block) ==
    LET blockWordCount == IF block.wordEnd >= block.wordStart
                          THEN block.wordEnd - block.wordStart + 1 ELSE 0
        break == /\ pg.currentPageWordCount > 0
                 /\ pg.currentPageWordCount + blockWordCount > targetWordsPerPage
        turned ==
            IF break
            THEN [pg EXCEPT
                    !.chapterContents =
                        IF Len(pg.currentPageHtml) > 0
                        THEN Append(@, ChapterContent(Len(pg.chapterContents),
                                pg.currentPageHtml, pg.currentPageWordStart,
                                pg.currentPageWordStart + pg.currentPageWordCount - 1))
                        ELSE @,
                    !.pageStarts = Append(@, pg.currentPageWordStart + pg.currentPageWordCount - 1),
                    !.currentPageHtml = <<>>,
                    !.currentPageWordStart = block.wordStart,
                    !.currentPageWordCount = 0]
            ELSE pg
    IN  [turned EXCEPT
            !.currentPageHtml = @ \o block.html,
            !.currentPageWordStart =
                IF blockWordCount > 0 /\ turned.currentPageWordCount = 0
                THEN block.wordStart ELSE @,
            !.currentPageWordCount = @ + blockWordCount]

\* one iteration of "for (const block of contentBlocks)"
groupBlock(pg, block) ==
    LET blockWordCount == IF block.wordEnd >= block.wordStart
                          THEN block.wordEnd - block.wordStart + 1 ELSE 0
        break == /\ pg.currentPageWordCount > 0
                 /\ pg.currentPageWordCount + blockWordCount > targetWordsPerPage
        turned ==
            IF break
            THEN [pg EXCEPT
                    !.chapterContents =
                        IF Len(pg.currentPageHtml) > 0
                        THEN Append(@, ChapterContent(Len(pg.chapterContents),
                                pg.currentPageHtml, pg.currentPageWordStart,
                                pg.currentPageWordStart + pg.currentPageWordCount - 1))
                        ELSE @,
                    !.pageStarts = Append(@, pg.currentPageWordStart + pg.currentPageWordCount),
                    !.currentPageHtml = <<>>,
                    !.currentPageWordStart = block.wordStart,
                    !.currentPageWordCount = 0]
            ELSE pg
    IN  [turned EXCEPT
            !.currentPageHtml = @ \o block.html,
            !.currentPageWordStart =
                IF blockWordCount > 0 /\ turned.currentPageWordCount = 0
                THEN block.wordStart ELSE @,
            !.currentPageWordCount = @ + blockWordCount]

\* "Now create pages from content blocks", with the final page
groupBlocks(contentBlocks) ==
    LET \* "Don't forget the last page"
        lastPage(pg) ==
            IF Len(pg.currentPageHtml) > 0 /\ pg.currentPageWordCount > 0
            THEN [pg EXCEPT !.chapterContents =
                    Append(@, ChapterContent(Len(pg.chapterContents), pg.currentPageHtml,
                            pg.currentPageWordStart,
                            pg.currentPageWordStart + pg.currentPageWordCount - 1))]
            ELSE pg
    IN  lastPage(ForEach(groupBlock,
                         [pageStarts |-> <<0>>, chapterContents |-> <<>>,
                          currentPageHtml |-> <<>>, currentPageWordStart |-> 0,
                          currentPageWordCount |-> 0],
                         contentBlocks))

\* parseMarkdown up to "Now create pages from content blocks": the state
\* after the last line, pending paragraph, list and code block flushed
readMarkdown(markdown) ==
    LET lines == normalizeLines(Split(markdown, "\n"))
        first == [words |-> <<>>, paragraphStarts |-> <<0>>, contentBlocks |-> <<>>,
                  wordIndex |-> 0, paragraphIndex |-> 0, title |-> <<>>,
                  currentBlockHtml |-> <<>>, currentBlockWordStart |-> 0,
                  inCodeBlock |-> FALSE, codeBlockContent |-> <<>>, codeBlockLang |-> <<>>,
                  paragraphLines |-> <<>>, listItems |-> <<>>, currentListType |-> "none"]
        \* "Handle unclosed code block"
        unclosed(read) ==
            IF read.inCodeBlock /\ Len(read.codeBlockContent) > 0
            THEN [read EXCEPT !.contentBlocks = Append(@, codeBlock(read))]
            ELSE read
    IN  unclosed(flushList(flushParagraph(ForEach(markdownLine, first, lines))))

parseMarkdown(markdown) ==
    LET parsed(st, pg) ==
            [document |-> Document(updatePageIndex(st.words, pg.pageStarts),
                                   st.paragraphStarts, pg.pageStarts,
                                   Len(st.paragraphStarts), Len(pg.pageStarts)),
             title |-> st.title,
             preview |-> IF Len(pg.chapterContents) > 0
                         THEN Preview(pg.chapterContents,
                                      IF Len(st.words) > 0 THEN <<ChapterInfo({})>> ELSE <<>>,
                                      IF Len(st.words) > 0 THEN <<0>> ELSE <<>>)
                         ELSE NoPreview]
        paged(st) == parsed(st, groupBlocks(st.contentBlocks))
    IN  paged(readMarkdown(markdown))

\* the first match of /^#\s+(.+)$/m, trimmed and stripped, else the file name
extractTitleFallback(markdown, filename) ==
    LET starts == {i \in 1..Len(markdown) :
                    /\ i = 1 \/ markdown[i - 1] = "\n"
                    /\ markdown[i] = "#"
                    /\ i < Len(markdown) /\ IsSpace(markdown[i + 1])
                    /\ SkipSpace(markdown, i + 1) <= Len(markdown)}
        i == CHOOSE a \in starts : \A b \in starts : a <= b
        from == SkipSpace(markdown, i + 1)
        ends == {j \in from..Len(markdown) : markdown[j] \in {"\n", "\r"}}
        to == IF ends = {} THEN Len(markdown)
              ELSE (CHOOSE a \in ends : \A b \in ends : a <= b) - 1
    IN  IF starts # {}
        THEN stripMarkup(Trim(SubSeq(markdown, from, to)))
        ELSE stripExtension(filename, {Chars("md"), Chars("markdown")})

\* markdownAdapter.parse
markdownParse(f) ==
    LET adapted(parsed) ==
            AdapterParseResult(parsed.document,
                IF parsed.title # <<>> THEN parsed.title
                ELSE extractTitleFallback(f.content.text, f.name),
                parsed.preview, <<>>, "markdown")
    IN  adapted(parseMarkdown(f.content.text))

-----------------------------------------------------------------------------
(* EPUB.  A book is its metadata title and its spine; a spine item is its    *)
(* href (which the package may leave out) and idref, the label of its        *)
(* table-of-contents entry ("" when it has none), what loading it does       *)
(* ("ok", "noSection", "noContents", "throws") and the text content of its   *)
(* body.  The table of contents is the entries of the labelled spine items.  *)

\* "toc.length", the entries the book's navigation lists
tocLength(book) ==
    Cardinality({k \in 1..Len(book.spineItems) : book.spineItems[k].label # ""})

\* the words of one paragraph, with "Check for page break (every 250 words)"
epubParagraph(st, paragraph) ==
    LET pushed(paragraphWords) ==
            LET n == Len(paragraphWords)
                \* the word indices of this paragraph at which a page starts
                breaks == {i \in st.wordIndex..(st.wordIndex + n - 1) :
                                i > 0 /\ i % targetWordsPerPage = 0}
                before(i) == Cardinality({b \in breaks : b <= i})
                nth(k) == CHOOSE b \in breaks : before(b) = k
            IN  [st EXCEPT
                    !.paragraphStarts = Append(@, st.wordIndex),
                    !.pageStarts = @ \o [k \in 1..Cardinality(breaks) |-> nth(k)],
                    !.currentPage = @ + Cardinality(breaks),
                    !.words = @ \o [k \in 1..n |->
                        Word(paragraphWords[k], st.paragraphIndex,
                             st.currentPage + before(st.wordIndex + k - 1), FALSE, FALSE)],
                    !.wordIndex = @ + n,
                    !.paragraphIndex = @ + 1]
    IN  pushed(Tokens(paragraph))

\* one iteration of "for (const spineItem of spineItems)"
epubSpineItem(st, spineItem) ==
    IF st.threw # "none" THEN st
    \* "toc.find(t => spineItem.href.includes(...))" stands before the try
    ELSE IF ~spineItem.hasHref /\ st.tocLength > 0
    THEN [st EXCEPT !.threw = "Cannot read properties of undefined (reading 'includes')"]
    ELSE
    LET chapterStartWord == st.wordIndex
        started == [st EXCEPT !.chapterStarts = Append(@, chapterStartWord)]
        chapterTitle == IF spineItem.label # "" THEN spineItem.label
                        ELSE "Section " \o ToString(Len(st.chapters) + 1)
        sectionParagraphs ==
            LET trimmed(parts) == [k \in 1..Len(parts) |-> Trim(parts[k])]
            IN  SelectSeq(trimmed(splitBlankLines(spineItem.textContent)),
                          LAMBDA para : Len(para) > 0)
        withChapter(t) ==
            [t EXCEPT !.chapters = Append(@, ChapterInfo({chapterStartWord}))]
    IN  CASE spineItem.load = "noSection" ->
                [started EXCEPT !.parseWarnings =
                    Append(@, "Section not found: " \o
                        (IF spineItem.hasHref THEN spineItem.href ELSE spineItem.idref))]
          [] spineItem.load = "noContents" ->
                [started EXCEPT !.parseWarnings =
                    Append(@, "Could not load content for: " \o chapterTitle)]
          [] spineItem.load = "throws" ->
                withChapter([started EXCEPT !.parseWarnings =
                    Append(@, "Failed to parse chapter \"" \o chapterTitle
                              \o "\": Unknown error")])
          [] OTHER ->
                withChapter(ForEach(epubParagraph, started, sectionParagraphs))

parseEpub(f) ==
    LET book == f.content
        first == [words |-> <<>>, paragraphStarts |-> <<>>, pageStarts |-> <<0>>,
                  chapters |-> <<>>, chapterStarts |-> <<>>,
                  parseWarnings |->
                    IF Len(book.spineItems) = 0
                    THEN <<"No spine items found in EPUB - the file may be malformed or use an unsupported format">>
                    ELSE <<>>,
                  wordIndex |-> 0, paragraphIndex |-> 0, currentPage |-> 0,
                  tocLength |-> tocLength(book), threw |-> "none"]
        parsed(st) ==
            IF st.threw # "none" THEN [threw |-> st.threw]
            ELSE [threw |-> "none",
                  document |-> Document(st.words, st.paragraphStarts, st.pageStarts,
                                        st.paragraphIndex, Len(st.pageStarts)),
                  chapterStarts |-> st.chapterStarts, chapters |-> st.chapters,
                  title |-> IF book.title # <<>> THEN book.title
                            ELSE stripExtension(f.name, {Chars("epub")}),
                  parseWarnings |-> st.parseWarnings]
    IN  IF ~book.ready THEN [threw |-> "Invalid EPUB"]
        ELSE parsed(ForEach(epubSpineItem, first, book.spineItems))

\* epubAdapter.parse: no try/catch, and the parser returns no chapterContents
epubParse(f) ==
    LET adapted(parsed) ==
            IF parsed.threw # "none"
            THEN [AdapterParseResult(EmptyDocument, <<>>, NoPreview, <<>>, "none")
                    EXCEPT !.threw = parsed.threw]
            ELSE AdapterParseResult(parsed.document, parsed.title,
                    Preview(<<>>, parsed.chapters, parsed.chapterStarts),
                    parsed.parseWarnings, "epub")
    IN  adapted(parseEpub(f))

-----------------------------------------------------------------------------
(* parseFile: adapter lookup, parse, and the merge of tiny pages *)

minWordsPerPage == 20

adapterParse(adapter, f) ==
    CASE adapter.formatName = epubAdapter.formatName -> epubParse(f)
      [] adapter.formatName = fb2Adapter.formatName -> fb2Parse(f)
      [] adapter.formatName = pdfAdapter.formatName -> pdfParse(f)
      [] adapter.formatName = htmlAdapter.formatName -> htmlParse(f)
      [] adapter.formatName = docxAdapter.formatName -> docxParse(f)
      [] adapter.formatName = odtAdapter.formatName -> odtParse(f)
      [] adapter.formatName = mobiAdapter.formatName -> mobiParse(f)
      [] adapter.formatName = rtfAdapter.formatName -> rtfParse(f)
      [] adapter.formatName = textAdapter.formatName -> textParse(f)
      [] adapter.formatName = markdownAdapter.formatName -> markdownParse(f)

\* the chapter start word indices parseFile preserves: preview.chapters[].wordStart
chapterStartWordsOf(r) ==
    IF r.preview.present
    THEN UNION {r.preview.chapters[k].wordStart : k \in 1..Len(r.preview.chapters)}
    ELSE {}

\* one iteration of "for (let pageIdx = 0; pageIdx < pageStarts.length; pageIdx++)"
mergeStep(doc, chapterStartWords, st) ==
    LET pageStarts == doc.pageStarts
        words == doc.words
        pageIdx == st.pageIdx
    IN  IF pageIdx >= Len(pageStarts) THEN st
        ELSE
        LET pageStart == pageStarts[pageIdx + 1]
            hasNext == pageIdx + 1 < Len(pageStarts)
            pageEnd == IF hasNext THEN pageStarts[pageIdx + 2] - 1 ELSE Len(words) - 1
            onPage == {i \in pageStart..pageEnd : i + 1 \in DOMAIN words}
            nonEmpty == {i \in onPage : Trim(words[i + 1].text) # <<>>}
            nonEmptyCount == Cardinality(nonEmpty)
            hasEmptyPlaceholder == \E i \in onPage \ nonEmpty : words[i + 1].text = <<>>
            currentMergedWordCount == st.currentMergedWordCount + nonEmptyCount
            nextPageIsChapterStart ==
                hasNext /\ pageStarts[pageIdx + 2] \in chapterStartWords
            shouldBreak == \/ currentMergedWordCount >= minWordsPerPage
                           \/ (hasEmptyPlaceholder /\ nonEmptyCount = 0)
                           \/ nextPageIsChapterStart
        IN  IF shouldBreak /\ hasNext
            THEN [pageIdx |-> pageIdx + 1,
                  newPageStarts |-> Append(st.newPageStarts, pageStarts[pageIdx + 2]),
                  currentMergedWordCount |-> 0]
            ELSE [pageIdx |-> pageIdx + 1,
                  newPageStarts |-> st.newPageStarts,
                  currentMergedWordCount |-> currentMergedWordCount]

\* "Find which new page this word belongs to": the last p with i >= newPageStarts[p]
newPageIndexOf(newPageStarts, i) ==
    LET at == {p \in 0..(Len(newPageStarts) - 1) : i >= newPageStarts[p + 1]}
    IN  IF at = {} THEN 0 ELSE CHOOSE p \in at : \A q \in at : q <= p

\* the post-processing of parseFile on an adapter's result
mergeTinyPages(r) ==
    LET doc == r.document
    IN  IF ~(Len(doc.pageStarts) > 1 /\ Len(doc.words) > 0) THEN r
        ELSE
        LET chapterStartWords == chapterStartWordsOf(r)
            \* "Only update if we actually merged some pages"
            merged(newPageStarts) ==
                IF Len(newPageStarts) < Len(doc.pageStarts)
                THEN [r EXCEPT
                        !.document.words = [i \in 1..Len(doc.words) |->
                            [doc.words[i] EXCEPT
                                !.pageIndex = newPageIndexOf(newPageStarts, i - 1)]],
                        !.document.pageStarts = newPageStarts,
                        !.document.totalPages = Len(newPageStarts)]
                ELSE r
        IN  merged(Loop(LAMBDA st : mergeStep(doc, chapterStartWords, st),
                        [pageIdx |-> 0, newPageStarts |-> <<0>>,
                         currentMergedWordCount |-> 0],
                        Len(doc.pageStarts)).newPageStarts)

Unsupported == [AdapterParseResult(EmptyDocument, <<>>, NoPreview, <<>>, "none")
                    EXCEPT !.threw = "Unsupported file type"]

parseFile(f) ==
    LET adapter == getAdapterForFile(f)
    IN  IF adapter = NullAdapter THEN Unsupported
        ELSE mergeTinyPages(adapterParse(adapter, f))

-----------------------------------------------------------------------------
(* Inputs *)

MaxFb2Sections == 2

\* n one-letter tokens
W(n) == [i \in 1..n |-> <<"w">>]

P(n) == Elem("p", <<Text(W(n))>>)

File(name, type, content) == [name |-> Chars(name), type |-> Chars(type), content |-> content]

Fb2Xml(body) == [kind |-> "fb2", parseError |-> FALSE, hasBody |-> TRUE,
                 bookTitle |-> Chars("Book"), body |-> body]

Fb2SectionShapes ==
    { Elem("section", <<>>),
      Elem("section", <<P(1)>>),
      Elem("section", <<Elem("title", <<P(1)>>), P(2), Elem("empty-line", <<>>), P(1)>>),
      Elem("section", <<P(minWordsPerPage)>>),
      Elem("section", <<P(targetWordsPerPage), Elem("p", <<>>), P(1)>>),
      Elem("section", <<Elem("section", <<Elem("p", <<Elem("emphasis", <<Text(W(1))>>),
                                                     Elem("strong", <<Text(W(1))>>)>>)>>),
                        Elem("poem", <<Elem("stanza", <<Elem("v", <<Text(W(2))>>)>>)>>)>>) }

RECURSIVE SeqsUpTo(_, _)
SeqsUpTo(S, n) ==
    IF n = 0 THEN {<<>>}
    ELSE LET shorter == SeqsUpTo(S, n - 1)
         IN  shorter \cup {Append(q, x) : q \in {r \in shorter : Len(r) = n - 1}, x \in S}

Fb2Bodies ==
    {Elem("body", kids) : kids \in SeqsUpTo(Fb2SectionShapes, MaxFb2Sections)}
    \cup { Elem("body", <<P(1)>>),
           Elem("body", <<P(targetWordsPerPage), Elem("empty-line", <<>>), P(1)>>),
           Elem("body", <<Elem("title", <<P(1)>>), Elem("section", <<P(1)>>), P(1)>>),
           Elem("body", <<Elem("section", <<P(1)>>), Elem("section", <<>>),
                          Elem("section", <<P(1)>>)>>),
           Elem("body", <<Elem("section", <<P(targetWordsPerPage), Elem("p", <<>>)>>),
                          Elem("section", <<P(minWordsPerPage)>>)>>) }

Fb2Files ==
    {File("book.fb2", "", Fb2Xml(b)) : b \in Fb2Bodies}
    \cup { File("book.fb2", "", [Fb2Xml(Elem("body", <<>>)) EXCEPT !.parseError = TRUE]),
           File("book.fb2", "", [Fb2Xml(Elem("body", <<>>)) EXCEPT !.hasBody = FALSE]) }

MaxPdfPages == 2

Item(tokens, y) == [tokens |-> tokens, y |-> y]

PdfPageShapes ==
    { <<>>,
      <<Item(W(1), 700)>>,
      <<Item(W(2), 700), Item(W(1), 680), Item(W(1), 670)>>,
      <<Item(W(1), 700), Item(<<>>, 600), Item(<<Chars("a-b")>>, 690)>>,
      <<Item(W(9), 700)>>,
      <<Item(W(minWordsPerPage), 700)>> }

Pdf(pages, outline) ==
    [kind |-> "pdf", loadError |-> "", title |-> Chars("Doc"), pages |-> pages,
     outline |-> outline]

PdfPageLists == SeqsUpTo(PdfPageShapes, MaxPdfPages) \ {<<>>}

PdfFiles ==
    {File("doc.pdf", "application/pdf", Pdf(pages, <<>>)) : pages \in PdfPageLists}
    \cup {File("doc.pdf", "application/pdf", Pdf(pages, <<0, Len(pages) - 1>>)) :
            pages \in PdfPageLists}
    \* an outline that lists a later page before the first one
    \cup {File("doc.pdf", "application/pdf", Pdf(pages, <<Len(pages) - 1, 0>>)) :
            pages \in PdfPageLists}
    \cup {File("doc.pdf", "application/pdf", [Pdf(<<>>, <<>>) EXCEPT !.loadError = e]) :
            e \in {"password", "Invalid PDF", "other"}}

MaxBlocks == 2

\* block and inline shapes the HTML, DOCX and ODT walkers meet
HtmlBlockShapes ==
    { Elem("p", <<>>),
      Elem("p", <<Text(W(1))>>),
      Elem("div", <<Elem("p", <<Text(W(2))>>)>>),
      Elem("h1", <<Text(W(1))>>),
      Elem("p", <<Text(W(1)), Elem("em", <<Text(W(1)), Elem("b", <<Text(W(1))>>)>>)>>),
      Elem("script", <<Text(W(3))>>),
      Elem("ul", <<Elem("li", <<Text(W(1))>>), Elem("li", <<Text(W(1))>>)>>),
      Elem("p", <<Text(W(targetWordsPerPage))>>),
      Text(W(1)) }

Html(title, kids) == [kind |-> "html", title |-> Chars(title), body |-> Elem("body", kids)]

HtmlFiles ==
    {File("page.html", "text/html", Html("", kids)) :
        kids \in SeqsUpTo(HtmlBlockShapes, MaxBlocks)}
    \cup {File("page.htm", "", Html("Page", kids)) : kids \in SeqsUpTo(HtmlBlockShapes, 1)}

DocxBlockShapes ==
    { Elem("p", <<>>),
      Elem("p", <<Text(W(1))>>),
      Elem("p", <<ElemAttr("img", "data:image/png", <<>>)>>),
      Elem("p", <<Text(W(1)), ElemAttr("img", "data:image/png", <<>>), Text(W(1))>>),
      Elem("p", <<ElemAttr("img", "", <<>>)>>),
      Elem("table", <<Elem("tr", <<Elem("td", <<Elem("p", <<Text(W(1))>>)>>)>>)>>),
      Elem("p", <<Elem("strong", <<Elem("em", <<Text(W(2))>>)>>)>>),
      Elem("p", <<Text(W(targetWordsPerPage))>>) }

Docx(messages, kids) ==
    [kind |-> "docx", error |-> "", messages |-> messages, body |-> Elem("body", kids)]

DocxFiles ==
    {File("letter.docx", "", Docx(<<>>, kids)) : kids \in SeqsUpTo(DocxBlockShapes, MaxBlocks)}
    \cup { File("letter.docx", "",
                Docx(<<[type |-> "warning", message |-> "Unrecognised paragraph style"],
                       [type |-> "info", message |-> "note"]>>,
                     <<Elem("p", <<Text(W(1))>>)>>)),
           File("letter.docx", "",
                [Docx(<<>>, <<>>) EXCEPT !.error = "Could not find the body element"]) }

OdtBlockShapes ==
    { Elem("p", <<>>),
      Elem("p", <<Text(W(1))>>),
      Elem("h", <<Text(W(1))>>),
      Elem("p", <<Text(W(1)), Elem("s", <<>>), ElemAttr("span", "Strong_20_Emphasis", <<Text(W(1))>>),
                  ElemAttr("span", "T1_Italic", <<Text(W(1))>>), Elem("line-break", <<>>)>>),
      Elem("list", <<Elem("list-item", <<Elem("p", <<Text(W(1))>>)>>)>>),
      Elem("p", <<Text(W(targetWordsPerPage))>>) }

Odt(metaTitle, kids) ==
    [kind |-> "odt", error |-> "", hasContent |-> TRUE, hasBody |-> TRUE,
     metaTitle |-> Chars(metaTitle), body |-> Elem("text", kids)]

OdtFiles ==
    {File("letter.odt", "", Odt(title, kids)) :
        title \in {"", "Letter"}, kids \in SeqsUpTo(OdtBlockShapes, MaxBlocks)}
    \cup { File("letter.odt", "", [Odt("", <<>>) EXCEPT !.error = "Corrupted zip"]),
           File("letter.odt", "", [Odt("", <<>>) EXCEPT !.hasContent = FALSE]),
           File("letter.odt", "", [Odt("", <<>>) EXCEPT !.hasBody = FALSE]) }

\* the bytes of a text
Bytes(text) == [k \in 1..Len(Chars(text)) |-> charCode(Chars(text)[k])]

\* the text records of the MOBI files: plain text, markup, entities, and
\* PalmDOC byte codes (a literal run, a space-and-character byte, a back
\* reference, a back reference cut off at the end of the record)
MobiRecords ==
    { <<>>,
      Bytes("word"),
      Bytes("<p>one two</p><p>three</p>"),
      Bytes("<P>a<BR/>b</P><div>c &amp; &#65;</div><h1>d</h1>e"),
      Bytes("  \n \n "),
      <<4>> \o Bytes("word"),
      Bytes("ab") \o <<128 + 32 + 66>> \o <<128, 8 + 2>> \o <<0>>,
      Bytes("ab") \o <<128>> }

MaxMobiRecords == 1

Mobi(recordCount, ident, compression, encryption, records) ==
    [kind |-> "mobi", byteLength |-> 200, name |-> Chars("PalmName"),
     recordCount |-> recordCount, ident |-> ident, compression |-> compression,
     encryption |-> encryption, textRecordCount |-> Len(records),
     fullName |-> Chars(" Full Name "), records |-> records]

MobiFiles ==
    { File("book.mobi", "", Mobi(Len(records) + 1, ident, compression, encryption, records)) :
        records \in SeqsUpTo(MobiRecords, MaxMobiRecords), ident \in {"MOBI", "TEXt"},
        compression \in {1, 2, 3, 17480}, encryption \in {0, 1, 2} }
    \cup { File("book.azw3", "", Mobi(3, "MOBI", compression, encryption, <<r1, r2>>)) :
            r1 \in {Bytes("word"), Bytes("<p>one two</p><p>three</p>")},
            r2 \in {Bytes(" next"), Bytes("ab") \o <<128, 8 + 2>>},
            compression \in {1, 2, 17480}, encryption \in {0, 2} }
    \cup { File("book.prc", "", [Mobi(2, "MOBI", 1, encryption, <<Bytes("word")>>)
                                   EXCEPT !.byteLength = 50]) : encryption \in {0, 1} }
    \cup { File("book.mobi", "", [Mobi(2, "MOBI", 1, 0, <<Bytes("word")>>)
                                   EXCEPT !.fullName = <<>>]),
           File("book.mobi", "", [Mobi(3, "MOBI", 1, 0, <<Bytes("one"), Bytes(" two")>>)
                                   EXCEPT !.textRecordCount = 1]),
           File("book.mobi", "", [Mobi(3, "MOBI", 1, 0, <<Bytes("one"), Bytes(" two")>>)
                                   EXCEPT !.textRecordCount = 5]),
           File("book.mobi", "", Mobi(1, "MOBI", 1, 1, <<>>)),
           File("book.mobi", "", Mobi(1, "MOBI", 1, 0, <<>>)) }

MaxSpineItems == 2

SpineItem(label, load, text) ==
    [hasHref |-> TRUE, href |-> "ch.xhtml", idref |-> "ch", label |-> label, load |-> load,
     textContent |-> text]

\* n words, one per line
Lines(n) == [i \in 1..(2 * n) |-> IF i % 2 = 1 THEN "w" ELSE "\n"]

SpineItemShapes ==
    { SpineItem("Prologue", "ok", Chars("word")),
      SpineItem("", "ok", Chars(" one two\n \nthree-four\n\n\n five ")),
      SpineItem("", "ok", Chars(" \n ")),
      SpineItem("", "noSection", <<>>),
      SpineItem("Lost", "noContents", <<>>),
      SpineItem("", "throws", <<>>),
      [SpineItem("", "ok", Chars("word")) EXCEPT !.hasHref = FALSE] }

\* spine items around the page size
LongSpineItemShapes ==
    { SpineItem("One", "ok", Lines(targetWordsPerPage)),
      SpineItem("Two", "ok", Lines(targetWordsPerPage - 1) \o <<"\n">> \o Lines(minWordsPerPage + 2)),
      SpineItem("Prologue", "ok", Chars("word")),
      SpineItem("Lost", "noContents", <<>>) }

Epub(title, spineItems) ==
    [kind |-> "epub", ready |-> TRUE, title |-> Chars(title), spineItems |-> spineItems]

EpubFiles ==
    { File("book.epub", "application/epub+zip", Epub(title, spineItems)) :
        title \in {"Book"}, spineItems \in SeqsUpTo(SpineItemShapes, MaxSpineItems) }
    \cup { File("book.epub", "", Epub("Book", spineItems)) :
            spineItems \in SeqsUpTo(LongSpineItemShapes, 2) }
    \cup { File("book.epub", "", Epub("", <<SpineItem("", "ok", Chars("word"))>>)),
           File("book.epub", "", [Epub("", <<>>) EXCEPT !.ready = FALSE]) }

\* n words of one paragraph
Words(n) == [i \in 1..(2 * n) |-> IF i % 2 = 1 THEN "w" ELSE " "]

RtfTexts ==
    { Chars("{\\rtf1 word}"),
      Chars("{\\rtf1\\ansi{\\fonttbl{\\f0 Arial;}}Hello \\i world\\i0\\par\\par Next-one}"),
      Chars("{\\rtf1 one \\b two\\b0  three\\par \\plain four\\line five\\tab six}"),
      Chars("{\\rtf1 {\\info{\\title T}}a\\u8212?b \\u-3 c\\{d\\}\\\\ \\emdash\\endash\\lquote\\rquote\\ldblquote x\\rdblquote}"),
      Chars("{\\rtf1 \\b1 bold \\i italic\\b0\\i0\r\nplain \\"),
      Chars("{\\rtf1 }"),
      Chars("plain text"),
      Chars("{\\rtf1 ") \o Words(targetWordsPerPage) \o Chars("\\par next\\par last}"),
      Chars("{\\rtf1 ") \o Words(targetWordsPerPage) \o Chars("\\par }") }

RtfFiles ==
    { File(name, "", [kind |-> "rtf", text |-> text]) :
        name \in {"letter.rtf", "letter.RTF"}, text \in RtfTexts }

\* the arguments of decompressPalmDoc called on its own: literals (0, 9, 65,
\* 127), counts of a literal run (2, 8), the first byte of a back reference
\* (128; after it 0 and 2 give distance 0, 8 and 9 distance 1, 65 distance 8,
\* 127 distance 15), and a space-and-character byte (200)
MaxPalmBytes == 3

PalmByteSamples == {0, 2, 8, 9, 65, 127, 128, 200}

PalmInputs == SeqsUpTo(PalmByteSamples, MaxPalmBytes)

\* the arguments of rtfToText called on its own.  Plain texts: no backslash
\* and no brace
MaxRtfChars == 3

RtfPlainAlphabet == {"a", "b", " ", "-", "\n", "\r"}

RtfPlainTexts == SeqsUpTo(RtfPlainAlphabet, MaxRtfChars)

\* texts with a destination group: what stands before the group, the group
\* (balanced), and what follows it
RtfPrefixes == {<<>>, Chars("a "), Chars("{\\rtf1 "), Chars("{\\rtf1 a{\\b ")}

RtfDestinationGroups ==
    { Chars("{\\fonttbl x}"),
      Chars("{\\fonttbl{\\f0 Arial;}}"),
      Chars("{\\info{\\title T}{\\author{A}}}"),
      Chars("{\\pict\\picw1 0a0b}") }

RtfSuffixes == {<<>>, Chars("b"), Chars("Hello}"), Chars(" c}d}")}

RtfGroupTexts ==
    {pre \o group \o post :
        pre \in RtfPrefixes, group \in RtfDestinationGroups, post \in RtfSuffixes}

\* texts of formatting pieces: a word (followed by a space, or ending its
\* paragraph), or a control word that switches italic or bold, or breaks
\* the paragraph or the line
RtfPiece(text, kind, word) == [text |-> Chars(text), kind |-> kind, word |-> Chars(word)]

RtfPieces ==
    { RtfPiece("one ", "word", "one"), RtfPiece("I\\par ", "word", "I"),
      RtfPiece("\\i ", "italic", ""), RtfPiece("\\i0 ", "italic off", ""),
      RtfPiece("\\b ", "bold", ""), RtfPiece("\\b0 ", "bold off", ""),
      RtfPiece("\\plain ", "plain", ""),
      RtfPiece("\\par ", "break", ""), RtfPiece("\\line ", "break", "") }

MaxRtfPieces == 3

RtfPieceLines == SeqsUpTo(RtfPieces, MaxRtfPieces)

RtfPieceText(pieces) == Concat([k \in 1..Len(pieces) |-> pieces[k].text])

RtfConverterTexts ==
    RtfPlainTexts \cup RtfGroupTexts \cup {RtfPieceText(pieces) : pieces \in RtfPieceLines}

TextTexts ==
    { <<>>, Chars("word"), Chars(" word \n"), Chars("one two\n\nthree-four five"),
      Chars("a\n \n\nb\nc"), Chars("-lead trail- mid-dle"),
      Words(targetWordsPerPage) \o Chars("\n\n") \o Words(minWordsPerPage - 1),
      Words(targetWordsPerPage) \o Chars("\n\n  ") }

TextFiles ==
    { File(name, "text/plain", [kind |-> "text", text |-> text]) :
        name \in {"notes.txt", "notes.text", "notes"}, text \in TextTexts }

MaxMarkdownBlocks == 2

\* a sentence of n words
Sentence(n) == Words(n - 1) \o Chars("end.")

Fence == <<BackTick, BackTick, BackTick>>

MarkdownBlockShapes ==
    { Chars("# Title\n\n"),
      Chars("Hello world.\n\n"),
      Chars("word\n"),
      Chars("**bold** and *italic* or ***both*** with snake_case\n\n"),
      Chars("- one\n  more\n* two-three\n1. first\n\n"),
      Chars("---\n"),
      Chars("> quoted [link text](http://x) ![image](y)\n"),
      Chars("broken line\n\nand it continues.\n\n"),
      Fence \o Chars("js\nlet x;\n") \o Fence \o <<"\n">>,
      Words(minWordsPerPage) \o Chars("\n\n") }

\* blocks around the page target
MarkdownLongShapes ==
    { Sentence(targetWordsPerPage) \o Chars("\n\n"),
      Sentence(targetWordsPerPage - 1) \o Chars("\n\n"),
      Sentence(targetWordsPerPage + 1) \o Chars("\n\n"),
      Chars("Hello world.\n\n"),
      Chars("---\n"),
      Fence \o Chars("js\nlet x;\n") \o Fence \o <<"\n">> }

MarkdownTexts ==
    { Concat(blocks) : blocks \in SeqsUpTo(MarkdownBlockShapes, MaxMarkdownBlocks) }
    \cup { Concat(blocks) : blocks \in SeqsUpTo(MarkdownLongShapes, 2) }
    \cup { Chars("# Title\n\nHello world."),
           Chars("word"),
           Chars("text with ") \o <<BackTick>> \o Chars("inline code") \o <<BackTick>>
                \o Chars(" and a lone ") \o <<BackTick>> \o Chars(" mark"),
           Sentence(targetWordsPerPage) \o Chars("\n\n") \o Words(2) \o Chars("\n\n---\n")
                \o Fence \o Chars("\nunclosed") }

\* emphasis samples: the Markdown text of a piece, and its words with the
\* italic and bold flags its markers ask for
Piece(text, words, italic, bold) ==
    [text |-> Chars(text),
     words |-> [k \in 1..Len(words) |->
                    [text |-> Chars(words[k]), italic |-> italic, bold |-> bold]]]

EmphasisPieces ==
    { Piece("**bold**", <<"bold">>, FALSE, TRUE),
      Piece("*italic*", <<"italic">>, TRUE, FALSE),
      Piece("and", <<"and">>, FALSE, FALSE),
      Piece("**two words**", <<"two", "words">>, FALSE, TRUE) }

MaxEmphasisPieces == 3

EmphasisLines == SeqsUpTo(EmphasisPieces, MaxEmphasisPieces) \ {<<>>}

\* the pieces on one line, a space between them
EmphasisText(pieces) == Join([k \in 1..Len(pieces) |-> pieces[k].text], <<" ">>)

MarkdownFiles ==
    { File("readme.md", "", [kind |-> "markdown", text |-> text]) :
        text \in MarkdownTexts \cup {EmphasisText(pieces) : pieces \in EmphasisLines} }
    \cup { File("readme.markdown", "text/markdown",
                [kind |-> "markdown", text |-> Chars("word")]) }

\* for each adapter, a file of one paragraph that holds one word
SingleWordFiles ==
    { File("book.epub", "", Epub("Book", <<SpineItem("One", "ok", Chars("word"))>>)),
      File("doc.pdf", "", Pdf(<<<<Item(W(1), 700)>>>>, <<>>)),
      File("notes.txt", "", [kind |-> "text", text |-> Chars("word")]),
      File("page.html", "", Html("", <<Elem("p", <<Text(W(1))>>)>>)),
      File("readme.md", "", [kind |-> "markdown", text |-> Chars("word")]),
      File("book.fb2", "", Fb2Xml(Elem("body", <<Elem("section", <<P(1)>>)>>))),
      File("letter.docx", "", Docx(<<>>, <<Elem("p", <<Text(W(1))>>)>>)),
      File("letter.rtf", "", [kind |-> "rtf", text |-> Chars("{\\rtf1 word}")]),
      File("letter.rtf", "", [kind |-> "rtf",
            text |-> Chars("{\\rtf1\\ansi{\\fonttbl{\\f0 Arial;}}\\f0 word\\par}")]),
      File("letter.odt", "", Odt("", <<Elem("p", <<Text(W(1))>>)>>)),
      File("book.mobi", "", Mobi(2, "MOBI", 1, 0, <<Bytes("word")>>)),
      File("book.prc", "", Mobi(2, "TEXt", 2, 0, <<Bytes("word")>>)) }

ParseFiles == Fb2Files \cup PdfFiles \cup HtmlFiles \cup DocxFiles \cup OdtFiles
    \cup MobiFiles \cup EpubFiles \cup RtfFiles \cup TextFiles \cup MarkdownFiles
    \cup SingleWordFiles

NoFile == File("", "", [kind |-> "none"])

\* no converter has been called
NoResult == [kind |-> "none"]

RegistryNames ==
    { "book.epub", "doc.PDF", "notes.txt", "notes.text", "page.html", "page.htm",
      "page.xhtml", "readme.md", "readme.markdown", "book.fb2", "letter.docx",
      "letter.Rtf", "letter.odt", "book.mobi", "book.azw", "book.azw3", "book.prc",
      "archive.pdf.zip", "a.b.txt", "noextension", "pdf", ".md", "trailing.", "prog.exe" }

RegistryTypes ==
    { "", "application/epub+zip", "application/pdf", "Text/Plain", "text/html",
      "application/xhtml+xml", "text/markdown", "text/x-markdown",
      "application/x-fictionbook+xml", "text/xml",
      "application/vnd.openxmlformats-officedocument.wordprocessingml.document",
      "application/rtf", "text/rtf", "application/vnd.oasis.opendocument.text",
      "application/x-mobipocket-ebook", "application/vnd.amazon.ebook",
      "application/octet-stream", "image/png" }

RegistryFiles ==
    {File(name, type, [kind |-> "none"]) : name \in RegistryNames, type \in RegistryTypes}

-----------------------------------------------------------------------------
(* The state machine *)

\* a caller asks the registry for the adapter of a file
GetAdapterForFile(f) ==
    /\ phase = "idle"
    /\ regFile' = f
    /\ regAdapter' = getAdapterForFile(f)
    /\ phase' = "found"
    /\ UNCHANGED <<file, result, final, arg, ret>>
    /\ UNCHANGED <<storeVars, loaderVars>>

\* a caller hands a file to parseFile: result is what the adapter's parse
\* returned, and final what parseFile returns, which is parseFile(f): the
\* page merge applied to that result (a failure passes through unchanged)
ParseFile(f) ==
    /\ phase = "idle"
    /\ file' = f
    /\ regFile' = f
    /\ regAdapter' = getAdapterForFile(f)
    /\ result' = (IF regAdapter' = NullAdapter THEN Unsupported
                  ELSE adapterParse(regAdapter', f))
    /\ final' = (IF result'.threw # "none" THEN result' ELSE mergeTinyPages(result'))
    /\ phase' = "parsed"
    /\ UNCHANGED <<arg, ret>>
    /\ UNCHANGED <<storeVars, loaderVars>>

\* the registry and parseFile keep nothing between calls: once the caller
\* has taken the answer, the next call starts from the same state as the first
Return ==
    /\ phase \in {"found", "parsed", "decompressed", "converted"}
    /\ phase' = "idle"
    /\ file' = NoFile
    /\ regFile' = NoFile
    /\ regAdapter' = NullAdapter
    /\ result' = Unsupported
    /\ final' = Unsupported
    /\ arg' = <<>>
    /\ ret' = NoResult
    /\ UNCHANGED <<storeVars, loaderVars>>

\* a caller hands bytes to decompressPalmDoc: "const output = []; let i = 0"
Decompress(bytes) ==
    /\ phase = "idle"
    /\ arg' = bytes
    /\ ret' = [i |-> 0, output |-> <<>>, stopped |-> FALSE, copies |-> <<>>]
    /\ phase' = "decompressing"
    /\ UNCHANGED <<regFile, regAdapter, file, result, final>>
    /\ UNCHANGED <<storeVars, loaderVars>>

\* one iteration of decompressPalmDoc's "while (i < compressed.length)"
DecompressStep ==
    /\ phase = "decompressing"
    /\ ret.i < Len(arg) /\ ~ret.stopped
    /\ ret' = decompressStep(arg, ret)
    /\ UNCHANGED <<regFile, regAdapter, file, result, final, arg, phase>>
    /\ UNCHANGED <<storeVars, loaderVars>>

\* the loop has ended, by its condition or by its break:
\* "return new Uint8Array(output)"
DecompressReturn ==
    /\ phase = "decompressing"
    /\ ret.i >= Len(arg) \/ ret.stopped
    /\ phase' = "decompressed"
    /\ UNCHANGED <<regFile, regAdapter, file, result, final, arg, ret>>
    /\ UNCHANGED <<storeVars, loaderVars>>

\* rtfAdapter.parse's two calls on the characters of a file: rtfToText, and
\* parseRtfText on what it returned
RtfToText(text) ==
    LET returned(rtfResult) ==
            [text |-> rtfResult.text, italic |-> rtfResult.italic,
             bold |-> rtfResult.bold, document |-> parseRtfText(rtfResult)]
    IN  /\ phase = "idle"
        /\ arg' = text
        /\ ret' = returned(rtfToText(text))
        /\ phase' = "converted"
        /\ UNCHANGED <<regFile, regAdapter, file, result, final>>
        /\ UNCHANGED <<storeVars, loaderVars>>

-----------------------------------------------------------------------------
(* The document store and the file loader component.  A stored document is   *)
(* the parsedDocument object loadFile builds; request names the loadFile     *)
(* invocation that built it (the identity of the object) and source the file *)
(* it was parsed from.  The reader store, the recent files and the saved     *)
(* last file, which loadFile also updates, are not part of the model.        *)

MaxLoads == 3

Null == "null"

\* "document: null", "currentDocument = null"
NoDocument == [request |-> 0]

initialState ==
    [loaded |-> FALSE, loading |-> FALSE, error |-> Null, fileName |-> <<>>,
     fileKey |-> <<>>, fileType |-> Null, document |-> NoDocument]

\* the store as its methods see it
Store ==
    [state |-> documentStore, currentDocument |-> currentDocument,
     released |-> released]

\* "if (currentDocument && 'chapterContents' in currentDocument)
\*      cleanupEpubResources(currentDocument)"
cleanupCurrent(s) ==
    IF s.currentDocument.request # 0 /\ s.currentDocument.hasChapterContents
    THEN [s EXCEPT !.released[s.currentDocument.request] = @ + 1]
    ELSE s

setLoading(s, fileName) ==
    [s EXCEPT !.state = [@ EXCEPT !.loading = TRUE, !.error = Null,
                                  !.fileName = fileName]]

\* setDocument that releases the document it installs
setDocumentReleasingNew(s, document, fileName, fileKey, fileType) ==
    [cleanupCurrent([s EXCEPT !.currentDocument = document]) EXCEPT
        !.state = [loaded |-> TRUE, loading |-> FALSE, error |-> Null,
                   fileName |-> fileName, fileKey |-> fileKey,
                   fileType |-> fileType, document |-> document]]

setDocument(s, document, fileName, fileKey, fileType) ==
    [cleanupCurrent(s) EXCEPT
        !.currentDocument = document,
        !.state = [loaded |-> TRUE, loading |-> FALSE, error |-> Null,
                   fileName |-> fileName, fileKey |-> fileKey,
                   fileType |-> fileType, document |-> document]]

setError(s, error) ==
    [s EXCEPT !.state = [@ EXCEPT !.loading = FALSE, !.error = error]]

clear(s) ==
    [cleanupCurrent(s) EXCEPT !.currentDocument = NoDocument,
                              !.state = initialState]

\* the decimal digits of n
RECURSIVE Decimal(_)
Decimal(n) ==
    IF n < 10 THEN <<DigitSeq[n + 1]>>
    ELSE Decimal(n \div 10) \o <<DigitSeq[(n % 10) + 1]>>

\* `${filename}_${fileSize}`
generateFileKey(filename, fileSize) == filename \o <<"_">> \o Decimal(fileSize)

\* result.warnings.join(' ')
RECURSIVE joinWarnings(_)
joinWarnings(warnings) ==
    IF Len(warnings) = 0 THEN ""
    ELSE IF Len(warnings) = 1 THEN warnings[1]
    ELSE warnings[1] \o " " \o joinWarnings(Tail(warnings))

\* "const parsedDocument = {...result.document, title, parseWarnings,
\*  ...(result.preview ? {chapters, chapterStarts, chapterContents} : {})}"
parsedDocument(r, request, f) ==
    [document |-> r.document, title |-> r.title, parseWarnings |-> r.warnings,
     hasChapterContents |-> r.preview.present, preview |-> r.preview,
     request |-> request, source |-> [name |-> f.name, size |-> f.size]]

\* loadFile after "await parseFile(file)": the try block's rest, or its catch
loadFileReturned(s, r, request, f) ==
    LET fileKey == generateFileKey(f.name, f.size)
        fileType == IF r.fileType = "none" THEN "text" ELSE r.fileType
        hasWarnings == Len(r.warnings) > 0
    IN  IF r.threw # "none" THEN [store |-> setError(s, r.threw), ok |-> FALSE,
                                  hasWarnings |-> FALSE]
        ELSE IF Len(r.document.words) = 0
        THEN [store |-> setError(s, IF hasWarnings THEN joinWarnings(r.warnings)
                ELSE "The file appears to be empty or contains no readable text."),
              ok |-> FALSE, hasWarnings |-> FALSE]
        ELSE [store |-> setDocument(s, parsedDocument(r, request, f), f.name,
                                    fileKey, fileType),
              ok |-> TRUE, hasWarnings |-> hasWarnings]

\* the loads whose parse has not returned yet
InFlight == {r \in 1..Len(loads) : loads[r].pc = "parseFile"}

\* loadFile up to "await parseFile(file)", called by the onMount callback or
\* by handleFileSelect, which leave the component as "component"
LoadFile(f, saveToStorage, by, component) ==
    /\ Len(loads) < MaxLoads
    /\ loads' = Append(loads, [file |-> f, saveToStorage |-> saveToStorage,
                               by |-> by, pc |-> "parseFile",
                               \* the loads in flight when this one starts,
                               \* and whether it installed its document
                               overlaps |-> InFlight, ok |-> FALSE])
    /\ loader' = [component EXCEPT !.loadedFileName = <<>>]
    /\ LET started(s) ==
               /\ documentStore' = s.state
               /\ currentDocument' = s.currentDocument
               /\ released' = s.released
       IN  started(setLoading(Store, f.name))
    /\ UNCHANGED parserVars

\* the component is mounted: "if (autoLoadAttempted) return;
\* autoLoadAttempted = true", up to "await loadLastFile()"
Mount ==
    /\ loader.mount = "unmounted"
    /\ ~loader.autoLoadAttempted
    /\ loader' = [loader EXCEPT !.autoLoadAttempted = TRUE, !.mount = "loadLastFile"]
    /\ UNCHANGED <<parserVars, storeVars, loads>>

\* loadLastFile() resolves with a file: "await loadFile(lastFile)"
LoadLastFile(f) ==
    /\ loader.mount = "loadLastFile"
    /\ LoadFile(f, FALSE, "mount", [loader EXCEPT !.mount = "loadFile"])

\* loadLastFile() resolves with no file, or rejects
NoLastFile ==
    /\ loader.mount = "loadLastFile"
    /\ loader' = [loader EXCEPT !.mount = "done"]
    /\ UNCHANGED <<parserVars, storeVars, loads>>

\* a click on the load button, "disabled={loading}": the file dialog opens
OpenFileDialog ==
    /\ ~documentStore.loading
    /\ ~loader.dialogOpen
    /\ loader' = [loader EXCEPT !.dialogOpen = TRUE]
    /\ UNCHANGED <<parserVars, storeVars, loads>>

\* the user picks a file in the dialog: handleFileSelect up to
\* "await loadFile(file, true)"
SelectFile(f) ==
    /\ loader.dialogOpen
    /\ LoadFile(f, TRUE, "select", [loader EXCEPT !.dialogOpen = FALSE])

\* the user leaves the dialog without a file
CancelFileDialog ==
    /\ loader.dialogOpen
    /\ loader' = [loader EXCEPT !.dialogOpen = FALSE]
    /\ UNCHANGED <<parserVars, storeVars, loads>>

\* the parse of load r returns: loadFile from "await parseFile(file)" to its end
ParseFileReturns(r) ==
    /\ r \in InFlight
    /\ LET load == loads[r]
           returned(outcome) ==
               /\ documentStore' = outcome.store.state
               /\ currentDocument' = outcome.store.currentDocument
               /\ released' = outcome.store.released
               /\ loads' = [loads EXCEPT ![r].pc = "done", ![r].ok = outcome.ok]
               /\ loader' = [loader EXCEPT
                       !.showWarnings = @ \/ outcome.hasWarnings,
                       !.loadedFileName = IF outcome.ok THEN load.file.name ELSE @,
                       !.mount = IF load.by = "mount" THEN "done" ELSE @]
       IN  returned(loadFileReturned(Store, parseFile(load.file), r, load.file))
    /\ UNCHANGED parserVars

\* documentStore.clear()
Clear ==
    /\ documentStore.loaded
    /\ LET cleared(s) ==
               /\ documentStore' = s.state
               /\ currentDocument' = s.currentDocument
               /\ released' = s.released
       IN  cleared(clear(Store))
    /\ UNCHANGED <<parserVars, loaderVars>>

\* the files of the loader: a file and its size in bytes
Sized(f, size) ==
    [name |-> f.name, type |-> f.type, content |-> f.content, size |-> size]

LoaderFiles ==
    { Sized(File("book.epub", "", Epub("Book", <<SpineItem("One", "ok", Chars("word"))>>)), 7),
      Sized(File("notes.txt", "", [kind |-> "text", text |-> Chars("word")]), 4),
      Sized(File("empty.txt", "", [kind |-> "text", text |-> <<>>]), 0) }

Init ==
    /\ regFile = NoFile
    /\ regAdapter = NullAdapter
    /\ file = NoFile
    /\ result = Unsupported
    /\ final = Unsupported
    /\ arg = <<>>
    /\ ret = NoResult
    /\ phase = "idle"
    /\ documentStore = initialState
    /\ currentDocument = NoDocument
    /\ released = [request \in 1..MaxLoads |-> 0]
    /\ loads = <<>>
    /\ loader = [autoLoadAttempted |-> FALSE, mount |-> "unmounted",
                 dialogOpen |-> FALSE, loadedFileName |-> <<>>,
                 showWarnings |-> FALSE]

Next ==
    \/ \E f \in ParseFiles : ParseFile(f)
    \/ Return

Spec == Init /\ [][Next]_vars

\* the registry alone: lookups of files given by name and media type
NextRegistry ==
    \/ \E f \in RegistryFiles : GetAdapterForFile(f)
    \/ Return

SpecRegistry == Init /\ [][NextRegistry]_vars

\* decompressPalmDoc alone, its loop one iteration at a time
NextPalmDoc ==
    \/ \E bytes \in PalmInputs : Decompress(bytes)
    \/ DecompressStep
    \/ DecompressReturn
    \/ Return

SpecPalmDoc == Init /\ [][NextPalmDoc]_vars

\* the loop is not left halfway: an iteration that can run does run, and
\* the function returns once the loop has ended
SpecPalmDocLive ==
    SpecPalmDoc /\ WF_vars(DecompressStep) /\ WF_vars(DecompressReturn)

\* rtfToText alone: conversions of texts given character by character
NextRtf ==
    \/ \E text \in RtfConverterTexts : RtfToText(text)
    \/ Return

SpecRtf == Init /\ [][NextRtf]_vars

\* the file loader and the document store: the component is mounted, the
\* user opens files, parses return in any order, the store is cleared
NextLoader ==
    \/ Mount
    \/ \E f \in LoaderFiles : LoadLastFile(f)
    \/ NoLastFile
    \/ OpenFileDialog
    \/ \E f \in LoaderFiles : SelectFile(f)
    \/ CancelFileDialog
    \/ \E r \in 1..MaxLoads : ParseFileReturns(r)
    \/ Clear

SpecLoader == Init /\ [][NextLoader]_vars

-----------------------------------------------------------------------------
(* Claims *)

Parsed == phase = "parsed" /\ result.threw = "none"

\* the two documents of a parse: the adapter's, and parseFile's
Documents == {result.document, final.document}

\* C1: every chapter-start index (preview.chapterStarts) that is a page
\* boundary of the adapter's document is still a page boundary after the
\* page merge of parseFile.
C1_ChapterStartsKept ==
    Parsed /\ result.preview.present =>
        \A k \in 1..Len(result.preview.chapterStarts) :
            LET s == result.preview.chapterStarts[k]
            IN  (\E p \in 1..Len(result.document.pageStarts) :
                    result.document.pageStarts[p] = s)
                => \E p \in 1..Len(final.document.pageStarts) :
                    final.document.pageStarts[p] = s

StartsAtZeroIncreasing(starts) ==
    /\ Len(starts) > 0
    /\ starts[1] = 0
    /\ \A k \in 1..(Len(starts) - 1) : starts[k] < starts[k + 1]

\* C2: in every document with words, whether the adapter's or parseFile's,
\* pageStarts and paragraphStarts begin with 0 and are strictly increasing.
C2_StartsStrictlyIncreasing ==
    Parsed =>
        \A doc \in Documents :
            Len(doc.words) > 0 =>
                /\ StartsAtZeroIncreasing(doc.pageStarts)
                /\ StartsAtZeroIncreasing(doc.paragraphStarts)

\* the greatest k (0-based) with starts[k] <= i
GreatestAtMost(starts, i) ==
    CHOOSE k \in 0..(Len(starts) - 1) :
        /\ starts[k + 1] <= i
        /\ \A j \in 0..(Len(starts) - 1) : starts[j + 1] <= i => j <= k

\* C3: in every document, whether the adapter's or parseFile's, the pageIndex
\* of word i is the greatest k with pageStarts[k] <= i.
C3_PageIndexIsGreatest ==
    Parsed =>
        \A doc \in Documents :
            \A i \in 0..(Len(doc.words) - 1) :
                /\ \E k \in 1..Len(doc.pageStarts) : doc.pageStarts[k] <= i
                /\ doc.words[i + 1].pageIndex = GreatestAtMost(doc.pageStarts, i)

\* C4: in every document an adapter returns, word i lies in the paragraph
\* its paragraphIndex names: 0 <= paragraphIndex < totalParagraphs,
\* paragraphStarts[paragraphIndex] <= i, and i is below the next start, if any.
C4_ParagraphIndexNamesParagraph ==
    Parsed =>
        LET doc == result.document
        IN  \A i \in 0..(Len(doc.words) - 1) :
                LET p == doc.words[i + 1].paragraphIndex
                IN  /\ 0 <= p
                    /\ p < doc.totalParagraphs
                    /\ p + 1 \in DOMAIN doc.paragraphStarts
                    /\ doc.paragraphStarts[p + 1] <= i
                    /\ (p + 2 \in DOMAIN doc.paragraphStarts
                            => i < doc.paragraphStarts[p + 2])

\* the preview units of the adapter's result
Units == IF result.preview.present THEN result.preview.chapterContents ELSE <<>>

\* the data-word-index values in a unit's markup
MarkersOf(unit) ==
    {unit.htmlWithMarkers[k].idx :
        k \in {j \in 1..Len(unit.htmlWithMarkers) : "idx" \in DOMAIN unit.htmlWithMarkers[j]}}

\* C5: every data-word-index value in a preview unit's markup, on a word span
\* or on any other element, lies within the unit's word range [start, end].
C5_MarkersWithinRange ==
    Parsed =>
        \A u \in 1..Len(Units) :
            \A idx \in MarkersOf(Units[u]) :
                Units[u].wordRange[1] <= idx /\ idx <= Units[u].wordRange[2]

\* C6: the word ranges of a result's preview units, in order, are contiguous
\* and cover exactly 0..totalWords-1: the first starts at 0, each next one
\* starts one past the end of the one before, the last ends at totalWords-1.
C6_UnitRangesCoverWords ==
    Parsed /\ Len(Units) > 0 =>
        /\ Units[1].wordRange[1] = 0
        /\ \A u \in 1..(Len(Units) - 1) :
                Units[u + 1].wordRange[1] = Units[u].wordRange[2] + 1
        /\ \A u \in 1..Len(Units) : Units[u].wordRange[1] <= Units[u].wordRange[2]
        /\ Units[Len(Units)].wordRange[2] = result.document.totalWords - 1

\* a Markdown result of two pages, the second one with a block without words
C6_Witness ==
    /\ Parsed /\ result.fileType = "markdown"
    /\ Len(Units) = 2
    /\ Units[2].wordRange[1] = targetWordsPerPage
    /\ \E k \in 1..Len(Units[2].htmlWithMarkers) : Units[2].htmlWithMarkers[k].tag = "hr"

\* the adapters in the order adapters/index.ts registers them
RegistrationOrder ==
    <<epubAdapter, pdfAdapter, textAdapter, htmlAdapter, markdownAdapter,
      fb2Adapter, docxAdapter, rtfAdapter, odtAdapter, mobiAdapter>>

\* the adapter accepts the file's lowercased extension or its lowercased type
Accepts(adapter, f) ==
    \/ \E k \in 1..Len(adapter.extensions) :
            adapter.extensions[k] = ToLowerCase(LastSegment(f.name))
    \/ \E k \in 1..Len(adapter.mimeTypes) :
            adapter.mimeTypes[k] = ToLowerCase(f.type)

\* C7: getAdapterForFile returns the first adapter, in registration order
\* (epub, pdf, text, html, markdown, fb2, docx, rtf, odt, mobi), that accepts
\* the file's lowercased extension or lowercased media type, and null exactly
\* when no registered adapter accepts either.
C7_FirstMatchInRegistrationOrder ==
    LET matching == {k \in 1..Len(RegistrationOrder) :
                        Accepts(RegistrationOrder[k], regFile)}
    IN  /\ (regAdapter = NullAdapter <=> matching = {})
        /\ matching # {} =>
            regAdapter = RegistrationOrder[CHOOSE k \in matching :
                                                \A j \in matching : k <= j]

\* a file whose extension names one adapter and whose type names an earlier
\* one: the earlier registration wins
C7_Witness ==
    /\ Accepts(markdownAdapter, regFile)
    /\ Accepts(pdfAdapter, regFile)
    /\ ~Includes(pdfAdapter.extensions, ToLowerCase(LastSegment(regFile.name)))
    /\ regAdapter = pdfAdapter

\* a MOBI file that is a readable container: at least 100 bytes, and the
\* header record followed by at least one more record
ReadableMobi(f) ==
    /\ f.content.kind = "mobi"
    /\ f.content.byteLength >= 100
    /\ f.content.recordCount >= 2

EncryptedMessage ==
    "This file is DRM-protected. QuickReader can only open DRM-free Kindle files."

C9_SingleWordInput ==
    phase = "parsed" /\ file \in SingleWordFiles =>
        /\ result.threw = "none"
        /\ result.document.totalWords = 1
        /\ result.document.totalPages = 1
        /\ result.warnings = <<>>

TitleHello == Chars("# Title\n\nHello world.")

\* the number of data-word-index markers in a unit's markup
MarkerCount(unit) ==
    Cardinality({j \in 1..Len(unit.htmlWithMarkers) : "idx" \in DOMAIN unit.htmlWithMarkers[j]})

\* C10 as stated: the Markdown text "# Title\n\nHello world." parses to title
\* "Title", two words, and one preview unit with two markers, 0 and 1.
C10_TwoWords ==
    Parsed /\ result.fileType = "markdown" /\ file.content.text = TitleHello =>
        /\ result.title = Chars("Title")
        /\ result.document.totalWords = 2
        /\ Len(Units) = 1
        /\ MarkerCount(Units[1]) = 2
        /\ MarkersOf(Units[1]) = {0, 1}

\* C10, amended: the Markdown text "# Title\n\nHello world." parses to title
\* "Title" and three words, Title, Hello and world. (the heading's words are
\* part of the word stream), and one preview unit with three markers, 0, 1, 2.
C10_HeadingWordsCounted ==
    Parsed /\ result.fileType = "markdown" /\ file.content.text = TitleHello =>
        /\ result.title = Chars("Title")
        /\ result.document.totalWords = 3
        /\ [k \in 1..3 |-> result.document.words[k].text]
                = <<Chars("Title"), Chars("Hello"), Chars("world.")>>
        /\ Len(Units) = 1
        /\ Units[1].wordRange = <<0, 2>>
        /\ MarkerCount(Units[1]) = 3
        /\ MarkersOf(Units[1]) = {0, 1, 2}

C10_Witness ==
    /\ Parsed /\ result.fileType = "markdown"
    /\ file.content.text = TitleHello
    /\ result.title = Chars("Title")
    /\ Len(Units) = 1

BoldAndItalic == Chars("**bold** and *italic*")

\* the text and the two flags of each word, in order
Formatting(words) ==
    [k \in 1..Len(words) |->
        [text |-> words[k].text, italic |-> words[k].italic, bold |-> words[k].bold]]

\* C11: a Markdown line of pieces, each a pair of ** markers around words, a
\* pair of * markers around a word, or a bare word, parses to the words of
\* its pieces in their order, bold and not italic inside **, italic and not
\* bold inside *, neither outside; "**bold** and *italic*" gives bold (bold),
\* and (plain), italic (italic).
C11_EmphasisFlags ==
    Parsed /\ result.fileType = "markdown" =>
        /\ \A pieces \in EmphasisLines :
                file.content.text = EmphasisText(pieces) =>
                    Formatting(result.document.words)
                        = Concat([k \in 1..Len(pieces) |-> pieces[k].words])
        /\ file.content.text = BoldAndItalic =>
                Formatting(result.document.words)
                    = << [text |-> Chars("bold"), italic |-> FALSE, bold |-> TRUE],
                         [text |-> Chars("and"), italic |-> FALSE, bold |-> FALSE],
                         [text |-> Chars("italic"), italic |-> TRUE, bold |-> FALSE] >>

C11_Witness ==
    /\ Parsed /\ result.fileType = "markdown"
    /\ file.content.text = BoldAndItalic
    /\ result.document.totalWords = 3
    /\ result.document.words[1].bold
    /\ result.document.words[3].italic

Converted == phase = "converted"

AllFalse(marks) == \A k \in 1..Len(marks) : ~marks[k]

\* C12 as stated: for a text without backslash and braces, rtfToText returns
\* the text itself, character for character, and marks that are all false.
C12_PlainTextUnchanged ==
    Converted /\ arg \in RtfPlainTexts =>
        /\ ret.text = arg
        /\ AllFalse(ret.italic) /\ AllFalse(ret.bold)

\* C12, amended: for a text without backslash and braces, rtfToText returns
\* the text without its carriage returns and line feeds, every other
\* character kept in order, and one italic and one bold mark per character
\* returned, all false.
C12_PlainTextWithoutLineEnds ==
    Converted /\ arg \in RtfPlainTexts =>
        /\ ret.text = SelectSeq(arg, LAMBDA c : c \notin {"\n", "\r"})
        /\ Len(ret.italic) = Len(ret.text) /\ Len(ret.bold) = Len(ret.text)
        /\ AllFalse(ret.italic) /\ AllFalse(ret.bold)

C12_Witness ==
    /\ Converted /\ arg \in RtfPlainTexts
    /\ Len(arg) = MaxRtfChars
    /\ \E k \in 1..Len(arg) : arg[k] = "\n"
    /\ Len(ret.text) = 2

\* C13: when a text holds a destination group, at whatever depth, rtfToText
\* returns what it returns for the text without that group: the content of
\* the group is dropped up to its own closing brace, and what follows the
\* brace is converted as usual.
C13_DestinationGroupDropped ==
    Converted =>
        \A pre \in RtfPrefixes, group \in RtfDestinationGroups, post \in RtfSuffixes :
            arg = pre \o group \o post =>
                LET without == rtfToText(pre \o post)
                IN  /\ ret.text = without.text
                    /\ ret.italic = without.italic
                    /\ ret.bold = without.bold

\* the words a line of pieces asks for, each with the italic and bold state
\* its control words have set before it
ExpectedFormatting(pieces) ==
    ForEach(LAMBDA t, piece :
                CASE piece.kind = "word" ->
                        [t EXCEPT !.words = Append(@,
                            [text |-> piece.word, italic |-> t.italic, bold |-> t.bold])]
                  [] piece.kind = "italic" -> [t EXCEPT !.italic = TRUE]
                  [] piece.kind = "italic off" -> [t EXCEPT !.italic = FALSE]
                  [] piece.kind = "bold" -> [t EXCEPT !.bold = TRUE]
                  [] piece.kind = "bold off" -> [t EXCEPT !.bold = FALSE]
                  [] piece.kind = "plain" -> [t EXCEPT !.italic = FALSE, !.bold = FALSE]
                  [] OTHER -> t,
            [words |-> <<>>, italic |-> FALSE, bold |-> FALSE], pieces).words

\* C14: rtfToText returns one italic mark and one bold mark per character
\* of its text, also for texts with \par or \line, and each word that
\* parseRtfText builds carries the italic and bold state that was in effect
\* where the word began.
C14_MarksAligned ==
    Converted =>
        /\ Len(ret.italic) = Len(ret.text)
        /\ Len(ret.bold) = Len(ret.text)
        /\ \A pieces \in RtfPieceLines :
                arg = RtfPieceText(pieces) =>
                    Formatting(ret.document.words) = ExpectedFormatting(pieces)

Decompressed == phase = "decompressed"

\* only literal codes: 0x00, or 0x09 to 0x7F
LiteralOnly(bytes) ==
    \A k \in 1..Len(bytes) : bytes[k] = 0 \/ (bytes[k] >= 9 /\ bytes[k] <= 127)

\* C15: decompressPalmDoc returns a sequence of literal codes as it is, and
\* returns any of its own results that is made of literal codes as it is
\* when it is called on it.
C15_LiteralsUnchanged ==
    Decompressed =>
        /\ LiteralOnly(arg) => ret.output = arg
        /\ LiteralOnly(ret.output) => decompressPalmDoc(ret.output) = ret.output

C15_Witness ==
    /\ Decompressed
    /\ Len(arg) = MaxPalmBytes /\ LiteralOnly(arg)
    /\ \E k \in 1..Len(arg) : arg[k] = 9
    /\ ret.output = arg

\* C16: whenever decompressPalmDoc copies a byte of a back reference, the
\* position it reads is inside the output decoded so far (0 <= pos <
\* output.length), or it is before the start and a zero byte is written;
\* and the input is never read past its end.
C16_CopiesInsideOutput ==
    phase \in {"decompressing", "decompressed"} =>
        /\ ret.i <= Len(arg)
        /\ \A j \in 1..Len(ret.copies) :
                LET copy == ret.copies[j]
                IN  IF copy.pos < 0
                    THEN ret.output[copy.length + 1] = 0
                    ELSE copy.pos < copy.length

\* C17: decompressPalmDoc returns on every input, cut off or not: each
\* iteration of its loop consumes at least one byte of the input and keeps
\* what was decoded before it, and the call that has begun ends with the
\* loop's output returned.
C17_Terminates ==
    /\ [][DecompressStep => /\ ret'.i > ret.i
                            /\ Len(ret'.output) >= Len(ret.output)
                            /\ SubSeq(ret'.output, 1, Len(ret.output)) = ret.output]_vars
    /\ [][DecompressReturn => ret'.output = ret.output]_vars
    /\ (phase = "decompressing") ~> Decompressed

\* a call cut off in the middle of a back reference has returned the bytes
\* decoded before it
C17_Witness ==
    /\ Decompressed
    /\ ret.stopped
    /\ arg = <<65, 9, 128>>
    /\ ret.output = <<65, 9>>

Ascending(starts) == \A k \in 1..(Len(starts) - 1) : starts[k] <= starts[k + 1]

\* the start word indices of the chapters that carry one
ChapterWordStarts(chapters) ==
    LET known == SelectSeq(chapters, LAMBDA chapter : chapter.wordStart # {})
    IN  [k \in 1..Len(known) |-> CHOOSE w \in known[k].wordStart : TRUE]

\* C18: in every adapter result the chapter entries are in ascending order
\* of their start word index, preview.chapterStarts as well as the wordStart
\* of preview.chapters, whatever the order of the file's outline.
C18_ChaptersAscending ==
    Parsed /\ result.preview.present =>
        /\ Ascending(result.preview.chapterStarts)
        /\ Ascending(ChapterWordStarts(result.preview.chapters))

\* the files on which the adapter's parse meets a failure: a container that
\* cannot be opened, a document that cannot be parsed, a header that is
\* not valid
FailureRaised(f) ==
    LET content == f.content
    IN  CASE content.kind = "epub" ->
                \/ ~content.ready
                \/ /\ tocLength(content) > 0
                   /\ \E k \in 1..Len(content.spineItems) : ~content.spineItems[k].hasHref
          [] content.kind = "pdf" -> content.loadError # ""
          [] content.kind = "fb2" -> content.parseError \/ ~content.hasBody
          [] content.kind = "docx" -> content.error # ""
          [] content.kind = "odt" -> content.error # "" \/ ~content.hasContent
          [] content.kind = "rtf" -> ~MatchAt(content.text, 1, Chars("{\\rtf"))
          [] content.kind = "mobi" ->
                content.byteLength < 100 \/ content.recordCount < 2 \/ content.encryption # 0
          [] OTHER -> FALSE

\* C19: a failure met while a registered adapter parses a file does not
\* leave parseFile as an exception: parseFile returns a result with the
\* zero-word document (no words, no starts, zero totals) and the failure's
\* message.
C19_FailuresReturned ==
    phase = "parsed" /\ regAdapter # NullAdapter /\ FailureRaised(file) =>
        /\ final.threw = "none"
        /\ final.document = EmptyDocument
        /\ Len(final.warnings) > 0

\* a spine item that does not load: no section, no contents, an exception
\* while its text is extracted, or no href
FailedItem(spineItem) == spineItem.load # "ok" \/ ~spineItem.hasHref

\* the book without the spine items whose load fails
withoutFailed(f) ==
    [f EXCEPT !.content.spineItems = SelectSeq(@, LAMBDA spineItem : spineItem.load = "ok")]

\* C20: when a spine item of a book fails (section missing, content not
\* loadable, href missing, exception while extracting), parseEpub does not
\* abort: it appends a warning for each item whose load fails, and the
\* words are those of the other items, at the indices they have in the book
\* without the failed items.
C20_BadSpineItemSkipped ==
    LET spineItems == file.content.spineItems
        unloaded == {k \in 1..Len(spineItems) : spineItems[k].load # "ok"}
    IN  /\ phase = "parsed"
        /\ file.content.kind = "epub"
        /\ file.content.ready
        /\ \E k \in 1..Len(spineItems) : FailedItem(spineItems[k])
        => /\ result.threw = "none"
           /\ Len(result.warnings) >= Cardinality(unloaded)
           /\ result.document.words = parseEpub(withoutFailed(file)).document.words

\* the word indices of page k (1-based) of a document
WordsOnPage(doc, k) ==
    LET pageEnd == IF k < Len(doc.pageStarts) THEN doc.pageStarts[k + 1] - 1
                   ELSE Len(doc.words) - 1
    IN  {i \in doc.pageStarts[k]..pageEnd : i + 1 \in DOMAIN doc.words}

NonEmptyOnPage(doc, k) == {i \in WordsOnPage(doc, k) : Trim(doc.words[i + 1].text) # <<>>}

\* page k holds an empty-text image placeholder and no non-empty word
PlaceholderOnly(doc, k) ==
    /\ NonEmptyOnPage(doc, k) = {}
    /\ \E i \in WordsOnPage(doc, k) : doc.words[i + 1].text = <<>>

\* K is the set of the boundaries (1-based positions of pageStarts) the
\* page merge keeps, given the chapter starts it protects
KeepsExactly(doc, chapterStarts, K) ==
    /\ 1 \in K
    /\ \A k \in 1..(Len(doc.pageStarts) - 1) :
            LET previous == CHOOSE j \in K : j <= k /\ \A q \in K : q <= k => q <= j
                accumulated == {<<p, i>> \in (previous..k) \X (0..(Len(doc.words) - 1)) :
                                    i \in NonEmptyOnPage(doc, p)}
            IN  (k + 1) \in K <=>
                    \/ Cardinality(accumulated) >= minWordsPerPage
                    \/ PlaceholderOnly(doc, k)
                    \/ doc.pageStarts[k + 1] \in chapterStarts

\* the entries of starts at the positions of K, in order
Restrict(starts, K) ==
    LET before(k) == Cardinality({j \in K : j <= k})
    IN  [n \in 1..Cardinality(K) |-> starts[CHOOSE k \in K : before(k) = n]]

\* parseFile's pageStarts are the original ones at the boundaries kept
MergeKeeps(chapterStarts) ==
    LET doc == result.document
    IN  \E K \in SUBSET (1..Len(doc.pageStarts)) :
            /\ KeepsExactly(doc, chapterStarts, K)
            /\ final.document.pageStarts = Restrict(doc.pageStarts, K)
            /\ final.document.pageStarts[1] = 0

\* the chapter starts of a result
ChapterStarts(r) ==
    IF r.preview.present
    THEN {r.preview.chapterStarts[k] : k \in 1..Len(r.preview.chapterStarts)}
    ELSE {}

\* C21: the page merge of parseFile keeps boundary pageStarts[k+1] exactly
\* when the non-empty words accumulated since the previously kept boundary
\* are at least 20 at page k, or page k holds only image placeholders, or
\* pageStarts[k+1] is a chapter start; boundary 0 is kept and no boundary
\* is introduced.
C21_MergeKeepsExactly ==
    Parsed /\ Len(result.document.pageStarts) > 1 /\ Len(result.document.words) > 0 =>
        MergeKeeps(ChapterStarts(result))

\* the content blocks parseMarkdown groups into the pages of the result
BlocksOfFile == readMarkdown(file.content.text).contentBlocks

\* the word indices of a content block
BlockWords(block) == block.wordStart..block.wordEnd

\* C22: in the grouping of content blocks into pages, every page boundary is
\* the word start of a content block and lies inside no block's word range,
\* and a page of more than targetWordsPerPage words holds the words of one
\* block only.
C22_BlocksNotSplit ==
    Parsed /\ file.content.kind = "markdown" =>
        LET doc == result.document
            pageWords(k) == WordsOnPage(doc, k)
            blocks(contentBlocks) ==
                /\ \A k \in 2..Len(doc.pageStarts) :
                    /\ \E b \in 1..Len(contentBlocks) :
                            contentBlocks[b].wordStart = doc.pageStarts[k]
                    /\ \A b \in 1..Len(contentBlocks) :
                            ~(/\ doc.pageStarts[k] \in BlockWords(contentBlocks[b])
                              /\ doc.pageStarts[k] # contentBlocks[b].wordStart)
                /\ \A k \in 1..Len(doc.pageStarts) :
                        Cardinality(pageWords(k)) > targetWordsPerPage =>
                            \E b \in 1..Len(contentBlocks) :
                                pageWords(k) \subseteq BlockWords(contentBlocks[b])
        IN  blocks(BlocksOfFile)

\* two pages, the first of them longer than the target
C22_Witness ==
    /\ Parsed /\ file.content.kind = "markdown"
    /\ Len(result.document.pageStarts) = 2
    /\ result.document.pageStarts[2] > targetWordsPerPage
    /\ Len(result.document.words) > result.document.pageStarts[2]

\* C23: at most one parse is in flight: no loadFile invocation starts while
\* an earlier one has not completed.
C23_OneParseInFlight ==
    /\ Cardinality(InFlight) <= 1
    /\ \A r \in 1..Len(loads) : loads[r].overlaps = {}

\* C24: when load b was requested while load a was in flight and b installed
\* its document, then once both have completed the store does not hold the
\* document of a: the request issued last wins, whichever parse returned
\* first.
C24_NewerSupersedes ==
    \A a, b \in 1..Len(loads) :
        /\ a \in loads[b].overlaps
        /\ loads[a].pc = "done" /\ loads[b].pc = "done"
        /\ loads[b].ok
        /\ documentStore.loaded
        => documentStore.document.request # a

\* the loads that installed a document carrying chapterContents
InstalledWithContents ==
    {r \in 1..Len(loads) : loads[r].ok /\ parseFile(loads[r].file).preview.present}

\* C25: a document carrying chapterContents that setDocument installed is
\* released exactly once, when a later setDocument replaces it or clear
\* removes it, and not while it is the current document; no other document
\* is released.
C25_ReleasedOnceWhenReplaced ==
    \A r \in 1..MaxLoads :
        released[r] = IF r \in InstalledWithContents /\ currentDocument.request # r
                      THEN 1 ELSE 0

\* a document with chapterContents was replaced by another, and released
C25_Witness ==
    /\ 1 \in InstalledWithContents
    /\ currentDocument.request = 2
    /\ 2 \in InstalledWithContents
    /\ released[1] = 1

\* C28: while loaded is true, fileName and fileKey are those of the file the
\* stored document was parsed from.
C28_NameAndKeyOfDocument ==
    documentStore.loaded =>
        LET source == documentStore.document.source
        IN  /\ documentStore.fileName = source.name
            /\ documentStore.fileKey = generateFileKey(source.name, source.size)

\* the last word index of page k (1-based) of a document
PageEnd(doc, k) ==
    IF k < Len(doc.pageStarts) THEN doc.pageStarts[k + 1] - 1 ELSE Len(doc.words) - 1

\* page k of parseFile's document may stay below minWordsPerPage: the next
\* page starts a chapter, or the page ends with a source page that holds
\* only image placeholders
MayStayTiny(k) ==
    \/ /\ k < Len(final.document.pageStarts)
       /\ final.document.pageStarts[k + 1] \in
                ChapterStarts(result) \cup chapterStartWordsOf(result)
    \/ \E j \in 1..Len(result.document.pageStarts) :
            /\ PageEnd(result.document, j) = PageEnd(final.document, k)
            /\ PlaceholderOnly(result.document, j)

\* the pages of parseFile's document with fewer than minWordsPerPage
\* non-empty words and no reason to stay so
TinyPages ==
    {k \in 1..Len(final.document.pageStarts) :
        /\ Cardinality(NonEmptyOnPage(final.document, k)) < minWordsPerPage
        /\ ~MayStayTiny(k)}

\* C26: after the post-processing of a document of more than one page, every
\* page, the last one included, has at least 20 non-empty words, unless a
\* chapter starts right after it or it ends with a placeholder-only source
\* page.
C26_NoTinyPageLeft ==
    Parsed /\ Len(result.document.pageStarts) > 1 /\ Len(result.document.words) > 0 =>
        TinyPages = {}

\* C27: in every document with at least one word, whether the adapter's or
\* parseFile's, every entry of pageStarts is the index of a word: no page is
\* empty, the last one included.
C27_EveryPageHasAWord ==
    Parsed =>
        \A doc \in Documents :
            Len(doc.words) > 0 =>
                \A k \in 1..Len(doc.pageStarts) : doc.pageStarts[k] < doc.totalWords

\* C29: in every result of parseEpub, chapters and chapterStarts have the
\* same length and chapters[k].wordStart is chapterStarts[k], whichever
\* spine items failed or were skipped.
C29_ChaptersParallel ==
    Parsed /\ file.content.kind = "epub" =>
        LET chapters == result.preview.chapters
            chapterStarts == result.preview.chapterStarts
        IN  /\ Len(chapters) = Len(chapterStarts)
            /\ \A k \in 1..Len(chapters) :
                    k <= Len(chapterStarts) => chapters[k].wordStart = {chapterStarts[k]}

\* the registered adapters whose extensions hold the file's extension
AdaptersOfExtension(f) ==
    {k \in 1..Len(RegistrationOrder) :
        \E e \in 1..Len(RegistrationOrder[k].extensions) :
            RegistrationOrder[k].extensions[e] = ToLowerCase(LastSegment(f.name))}

\* C30: a file whose extension is in the accepted set of a registered
\* adapter is resolved by getAdapterForFile to that adapter, whatever media
\* type the file declares.
C30_ExtensionDecides ==
    phase = "found" =>
        \A k \in AdaptersOfExtension(regFile) : regAdapter = RegistrationOrder[k]

=============================================================================
